---- MODULE Spec2Model ----
(***************************************************************************)
(* A model of fbpic/fields/fields.py: the Fields object (one interpolation *)
(* grid, spectral grid, PSATD coefficient set and spectral transformer per *)
(* azimuthal mode) and the operations that advance it.                     *)
(*                                                                         *)
(* Numbers.  The arrays of the program hold complex floating point values. *)
(* The model computes in exact arithmetic over the Gaussian rationals: a   *)
(* number is <<re, im, den>> with den > 0 and gcd(re, im, den) = 1, so     *)
(* that equal numbers are equal tuples.  Rounding is not modelled.         *)
(* Physical constants are taken in units that keep the numbers small.      *)
(***************************************************************************)
EXTENDS Integers, Sequences, FiniteSets, TLC

----------------------------------------------------------------------------
(* Exact complex arithmetic *)

Abs(n) == IF n < 0 THEN -n ELSE n

RECURSIVE Gcd(_, _)
Gcd(a, b) == IF b = 0 THEN a ELSE Gcd(b, a % b)

\* The canonical form of (re + i*im)/den, den # 0.
Reduce(re, im, den, g) ==
    IF den < 0 THEN <<(-re) \div g, (-im) \div g, (-den) \div g>>
    ELSE <<re \div g, im \div g, den \div g>>

Norm(re, im, den) == Reduce(re, im, den, Gcd(Gcd(Abs(re), Abs(im)), Abs(den)))

Q(n, d) == Norm(n, 0, d)
Z(n) == <<n, 0, 1>>
Zero == <<0, 0, 1>>
One == <<1, 0, 1>>
Half == <<1, 0, 2>>
Quarter == <<1, 0, 4>>
\* The imaginary unit, 1.j (line 690).
i == <<0, 1, 1>>

\* a + b over the least common denominator, g the gcd of the denominators.
AddOver(a, b, g) ==
    Norm(a[1] * (b[3] \div g) + b[1] * (a[3] \div g),
         a[2] * (b[3] \div g) + b[2] * (a[3] \div g), (a[3] \div g) * b[3])

CAdd(a, b) == AddOver(a, b, Gcd(a[3], b[3]))
CNeg(a) == <<-a[1], -a[2], a[3]>>
CSub(a, b) == CAdd(a, CNeg(b))
\* a * b, with the factor g common to the numerator of a and the denominator
\* of b and the factor h common to the numerator of b and the denominator of
\* a cancelled before the multiplication.
MulOver(a, b, g, h) ==
    Norm((a[1] \div g) * (b[1] \div h) - (a[2] \div g) * (b[2] \div h),
         (a[1] \div g) * (b[2] \div h) + (a[2] \div g) * (b[1] \div h),
         (a[3] \div h) * (b[3] \div g))

CMul(a, b) ==
    MulOver(a, b, Gcd(Gcd(Abs(a[1]), Abs(a[2])), b[3]),
            Gcd(Gcd(Abs(b[1]), Abs(b[2])), a[3]))
\* 1./a for a real a # 0.
RInv(a) == Norm(a[3], 0, a[1])
\* |a|^2, a real number.
Abs2(a) == Norm(a[1] * a[1] + a[2] * a[2], 0, a[3] * a[3])

a \oplus b == CAdd(a, b)
a \ominus b == CSub(a, b)
a \otimes b == CMul(a, b)

----------------------------------------------------------------------------
(* Bounds of the model and the inputs of the constructor *)

\* The number of operations called on one Fields object.
MaxSteps == 3

\* The arguments the callers pass to the constructor: Nz, Nr, Nm and dt
\* (dt # 0).
NzArgs == (0 - 3) .. 3
NrArgs == {2}
NmArgs == 0 .. 2
DtArgs == {Half}
\* The timesteps the callers pass to correct_currents.
Dts == {One, Half}
\* The different contents the callers write into the arrays.
Seeds == {1, 2}

----------------------------------------------------------------------------
(* Physical constants (scipy.constants, line 8), in units with             *)
(* mu_0 * epsilon_0 * c^2 = 1 that keep the numbers small.                 *)

c == Z(2)
mu_0 == Q(1, 2)
epsilon_0 == Q(1, 2)

----------------------------------------------------------------------------
(* numpy                                                                   *)

\* The index set of an array of shape (nz, nr): <<iz, ir>>.
Idx(nz, nr) == (0 .. nz - 1) \X (0 .. nr - 1)

\* An array (or a record of arrays) with every element computed once, when
\* it is written, and not again at each later read.
Computed(v) == IF v = v THEN v ELSE v

\* np.zeros( (nz, nr), dtype='complex' )
zeros(nz, nr) == [p \in Idx(nz, nr) |-> Zero]

\* The frequency index of np.fft.fftfreq(n, d): fftfreq[j] = FreqIndex/(n*d),
\* positive frequencies first, then the negative ones.
FreqIndex(n, j) == IF 2 * j <= n - 1 THEN j ELSE j - n

\* np.cos( w*dt ) and np.sin( w*dt )*inv_w (lines 918, 921) as functions of
\* w^2.  cos and sin are modelled by the rational parametrisation of the
\* unit circle in t = w*dt/2, cos = (1-t^2)/(1+t^2), sin = 2t/(1+t^2), which
\* keeps cos^2 + sin^2 = 1 exact and cos(0) = 1, sin(0) = 0, sin(x)/x -> 1.
\* Only even functions of w occur in the program, so w = c*sqrt(kz^2+kr^2)
\* enters through w^2 and no square root is taken.
np_cos_w_dt(w2, dt) ==
    LET t2 == Quarter \otimes w2 \otimes dt \otimes dt
    IN  (One \ominus t2) \otimes RInv(One \oplus t2)

\* inv_w is 1 where w == 0 (line 915): there sin(0)*1 = 0.
np_sin_w_dt_inv_w(w2, dt) ==
    LET t2 == Quarter \otimes w2 \otimes dt \otimes dt
    IN  IF w2 = Zero THEN Zero ELSE dt \otimes RInv(One \oplus t2)

\* 1 - np.sin( k * coef )**2 with coef = 1./k.max() * np.pi/2 (lines 1216 to
\* 1221), for q = k/k.max(): the same parametrisation with t = q, exact at
\* q = 0 (weight 1) and q = 1, -1 (weight 0).
filt_1d(q) ==
    LET cs == (One \ominus (q \otimes q)) \otimes RInv(One \oplus (q \otimes q))
    IN  cs \otimes cs

----------------------------------------------------------------------------
(* The injected transforms                                                 *)

\* The class DHT of fbpic/hankel_dt.py is consumed as an opaque linear
\* operator along r with a transform and an inverse_transform that undo each
\* other.  The operator of order p is modelled by the unit lower triangular
\* matrix G[ir] = F[ir] + (p+2)*F[ir-1], which depends on the order.
DHT_coef(p) == Z(p + 2)

DHT_row(p, F, iz, ir) ==
    IF ir = 0 THEN F[<<iz, 0>>]
    ELSE F[<<iz, ir>>] \oplus (DHT_coef(p) \otimes F[<<iz, ir - 1>>])

\* dht.transform( F, G ): the new contents of G.
DHT_transform(p, F) == [q \in DOMAIN F |-> DHT_row(p, F, q[1], q[2])]

RECURSIVE DHT_inv_row(_, _, _, _)
DHT_inv_row(p, G, iz, ir) ==
    IF ir = 0 THEN G[<<iz, 0>>]
    ELSE G[<<iz, ir>>] \ominus (DHT_coef(p) \otimes DHT_inv_row(p, G, iz, ir - 1))

\* dht.inverse_transform( G, F ): the new contents of F.
DHT_inverse_transform(p, G) == [q \in DOMAIN G |-> DHT_inv_row(p, G, q[1], q[2])]

\* dht0.get_r(): the radial grid, evenly spaced, r[j] = (j + 1/2) * rmax/Nr.
DHT_get_r(Nr, rmax) == [j \in 0 .. Nr - 1 |-> Q(2 * j + 1, 2 * Nr) \otimes rmax]

\* 2*np.pi * dht0.get_nu() for mode m (line 133): an increasing grid of
\* radial wavevectors, which starts at 0 when nu_zero holds.
DHT_get_kr(m, Nr, rmax, nu_zero) ==
    [j \in 0 .. Nr - 1 |->
        Z(IF nu_zero THEN j * (m + 1) ELSE j + 1 + m) \otimes RInv(rmax)]

\* The sum of A[<<n, ir>>] over n in 0 .. k.
RECURSIVE ColSum(_, _, _)
ColSum(A, k, ir) ==
    IF k < 0 THEN Zero ELSE A[<<k, ir>>] \oplus ColSum(A, k - 1, ir)

\* The pyfftw plans fft_r, fft_t (lines 1008, 1018) are consumed as a linear
\* transform along z and ifft_r, ifft_t (lines 1010, 1020) as its inverse.
\* The forward transform is modelled by: the zero frequency is the sum over
\* z (as for a Fourier transform), the others are differences to the first
\* point; the backward transform carries the 1/Nz normalisation.
FFT_forward(Nz, A) ==
    [q \in DOMAIN A |->
        IF q[1] = 0 THEN ColSum(A, Nz - 1, q[2])
        ELSE A[q] \ominus A[<<0, q[2]>>]]

FFT_first(Nz, S, ir) ==
    Q(1, Nz) \otimes
        ((S[<<0, ir>>] \oplus S[<<0, ir>>]) \ominus ColSum(S, Nz - 1, ir))

FFT_backward(Nz, S) ==
    [q \in DOMAIN S |->
        IF q[1] = 0 THEN FFT_first(Nz, S, q[2])
        ELSE S[q] \oplus FFT_first(Nz, S, q[2])]

----------------------------------------------------------------------------
(* InterpolationGrid.__init__ (lines 410 to 467)                           *)

\* 1./vol, vol = np.pi*dz*( (r+0.5*dr)**2 - (r-0.5*dr)**2 ) (lines 453, 455).
\* Lengths along z are counted in units of 2*pi, so that vol and invvol are
\* in units of 2*pi^2 and its inverse.
IG_invvol(z, r) ==
    LET dr == r[1] \ominus r[0]
        dz == z[1] \ominus z[0]
        hi(j) == r[j] \oplus (Half \otimes dr)
        lo(j) == r[j] \ominus (Half \otimes dr)
    IN  [j \in DOMAIN r |->
            RInv(dz \otimes ((hi(j) \otimes hi(j)) \ominus (lo(j) \otimes lo(j))))]

IG_init(z, r, m) ==
    LET Nz == Cardinality(DOMAIN z)
        Nr == Cardinality(DOMAIN r)
    IN  [ m |-> m, Nz |-> Nz, Nr |-> Nr, invvol |-> IG_invvol(z, r),
          Er |-> zeros(Nz, Nr), Et |-> zeros(Nz, Nr), Ez |-> zeros(Nz, Nr),
          Br |-> zeros(Nz, Nr), Bt |-> zeros(Nz, Nr), Bz |-> zeros(Nz, Nr),
          Jr |-> zeros(Nz, Nr), Jt |-> zeros(Nz, Nr), Jz |-> zeros(Nz, Nr),
          rho |-> zeros(Nz, Nr) ]

----------------------------------------------------------------------------
(* SpectralGrid.__init__ (lines 563 to 614)                                *)

\* The largest element of a 1darray of real numbers (k.max()).
ArrMax(k) ==
    CHOOSE a \in {k[j] : j \in DOMAIN k} :
        \A j \in DOMAIN k : (a \ominus k[j])[1] >= 0

\* get_filter_array( kz, kr ) (lines 1198 to 1226)
get_filter_array(kz, kr) ==
    LET filt_z == [j \in DOMAIN kz |-> filt_1d(kz[j] \otimes RInv(ArrMax(kz)))]
        filt_r == [j \in DOMAIN kr |-> filt_1d(kr[j] \otimes RInv(ArrMax(kr)))]
    IN  [q \in (DOMAIN kz) \X (DOMAIN kr) |-> filt_z[q[1]] \otimes filt_r[q[2]]]

\* inv_k2 without line 612, which sets it to 0 where kz = kr = 0.
SG_inv_k2_not_zeroed(kz, kr) ==
    [q \in DOMAIN kz |->
        RInv(IF kz[q] = Zero /\ kr[q] = Zero THEN One
             ELSE (kz[q] \otimes kz[q]) \oplus (kr[q] \otimes kr[q]))]

\* An inv_k2 of 1/(2 (kz^2 + kr^2)): the correction removes half of the
\* residual.
SG_inv_k2_halved(kz, kr) ==
    [q \in DOMAIN kz |->
        IF kz[q] = Zero /\ kr[q] = Zero THEN Zero
        ELSE RInv(Z(2) \otimes ((kz[q] \otimes kz[q]) \oplus (kr[q] \otimes kr[q])))]

\* inv_k2 (lines 609 to 612): 1/(kz^2 + kr^2), and 0 where kz = kr = 0.
SG_inv_k2(kz, kr) ==
    LET at0(q) == kz[q] = Zero /\ kr[q] = Zero
        raw == [q \in DOMAIN kz |->
                  RInv(IF at0(q) THEN One
                       ELSE (kz[q] \otimes kz[q]) \oplus (kr[q] \otimes kr[q]))]
    IN  [q \in DOMAIN kz |-> IF at0(q) THEN Zero ELSE raw[q]]

SG_init(kz, kr, m) ==
    LET Nz == Cardinality(DOMAIN kz)
        Nr == Cardinality(DOMAIN kr)
        kz2 == [q \in Idx(Nz, Nr) |-> kz[q[1]]]
        kr2 == [q \in Idx(Nz, Nr) |-> kr[q[2]]]
    IN  [ m |-> m, Nz |-> Nz, Nr |-> Nr, kz |-> kz2, kr |-> kr2,
          Ep |-> zeros(Nz, Nr), Em |-> zeros(Nz, Nr), Ez |-> zeros(Nz, Nr),
          Bp |-> zeros(Nz, Nr), Bm |-> zeros(Nz, Nr), Bz |-> zeros(Nz, Nr),
          Jp |-> zeros(Nz, Nr), Jm |-> zeros(Nz, Nr), Jz |-> zeros(Nz, Nr),
          rho_prev |-> zeros(Nz, Nr), rho_next |-> zeros(Nz, Nr),
          F |-> zeros(Nz, Nr), inv_k2 |-> SG_inv_k2(kz2, kr2),
          filter_array |-> get_filter_array(kz, kr) ]

----------------------------------------------------------------------------
(* PsatdCoeffs.__init__ (lines 890 to 946)                                 *)

\* w**2 at one point, w = c*np.sqrt( kz**2 + kr**2 ) (line 914).
PS_w2(kz, kr) == c \otimes c \otimes ((kz \otimes kz) \oplus (kr \otimes kr))

\* The divisor w taken as it is, zero included.
PS_divisor_unguarded(w2) == w2

\* The square of the divisor of line 915, np.where( w == 0, 1., w ).
PS_divisor(w2) == IF w2 = Zero THEN One ELSE w2

PS_init(kz, kr, m, dt, Nz, Nr) ==
    LET w2 == [q \in DOMAIN kz |-> PS_w2(kz[q], kr[q])]
        \* inv_w**2, inv_w = 1./np.where( w == 0, 1., w )
        inv_w2 == [q \in DOMAIN kz |-> RInv(PS_divisor(w2[q]))]
        C == [q \in DOMAIN kz |-> np_cos_w_dt(w2[q], dt)]
        S_w == [q \in DOMAIN kz |->
                  IF w2[q] = Zero THEN dt ELSE np_sin_w_dt_inv_w(w2[q], dt)]
        inv_dt == RInv(dt)
        c2_eps == c \otimes c \otimes RInv(epsilon_0)
    IN  [ m |-> m, dt |-> dt, C |-> C, S_w |-> S_w,
          j_coef |-> [q \in DOMAIN kz |->
              IF w2[q] = Zero THEN mu_0 \otimes c \otimes c \otimes (Half \otimes dt \otimes dt)
              ELSE mu_0 \otimes c \otimes c \otimes (One \ominus C[q]) \otimes inv_w2[q]],
          rho_prev_coef |-> [q \in DOMAIN kz |->
              IF w2[q] = Zero THEN c2_eps \otimes (Q(-1, 3) \otimes dt \otimes dt)
              ELSE c2_eps \otimes (C[q] \ominus (inv_dt \otimes S_w[q])) \otimes inv_w2[q]],
          rho_next_coef |-> [q \in DOMAIN kz |->
              IF w2[q] = Zero THEN c2_eps \otimes (Q(1, 6) \otimes dt \otimes dt)
              ELSE c2_eps \otimes (One \ominus (inv_dt \otimes S_w[q])) \otimes inv_w2[q]],
          Ep |-> zeros(Nz, Nr), Em |-> zeros(Nz, Nr), Ez |-> zeros(Nz, Nr) ]

----------------------------------------------------------------------------
(* SpectralTransformer.__init__ (lines 967 to 1021)                        *)

\* pyfftw.n_byte_align_empty allocates without initialising: the buffers
\* start with whatever the memory held, here the same number everywhere.
\* spect_buffer_p and spect_buffer_m are second names of spect_buffer_r and
\* spect_buffer_t (lines 1007, 1017), not arrays of their own.
ST_init(Nz, Nr, m, garbage) ==
    LET empty == [q \in Idx(Nz, Nr) |-> garbage]
    IN  [ m |-> m, Nz |-> Nz, dht0 |-> m, dhtp |-> m + 1, dhtm |-> m - 1,
          interp_buffer_r |-> empty, spect_buffer_r |-> empty,
          interp_buffer_t |-> empty, spect_buffer_t |-> empty ]

----------------------------------------------------------------------------
(* SpectralGrid: the methods, on the CPU                                   *)

\* A correct_currents that adds to Jm the correction it adds to Jp.
SG_correct_currents_same_sign(sg, dt) ==
    LET inv_dt == RInv(dt)
        F == Computed([q \in DOMAIN sg.F |->
                CNeg(sg.inv_k2[q]) \otimes
                  ( ((sg.rho_next[q] \ominus sg.rho_prev[q]) \otimes inv_dt)
                    \oplus (i \otimes sg.kz[q] \otimes sg.Jz[q])
                    \oplus (sg.kr[q] \otimes (sg.Jp[q] \ominus sg.Jm[q])) )])
    IN  [sg EXCEPT
          !.F = F,
          !.Jp = [q \in DOMAIN F |-> sg.Jp[q] \oplus (Half \otimes sg.kr[q] \otimes F[q])],
          !.Jm = [q \in DOMAIN F |-> sg.Jm[q] \oplus (Half \otimes sg.kr[q] \otimes F[q])],
          !.Jz = [q \in DOMAIN F |-> sg.Jz[q] \oplus (CNeg(i) \otimes sg.kz[q] \otimes F[q])]]

\* SpectralGrid.correct_currents( dt ) (lines 616 to 648)
SG_correct_currents(sg, dt) ==
    LET inv_dt == RInv(dt)
        F == Computed([q \in DOMAIN sg.F |->
                CNeg(sg.inv_k2[q]) \otimes
                  ( ((sg.rho_next[q] \ominus sg.rho_prev[q]) \otimes inv_dt)
                    \oplus (i \otimes sg.kz[q] \otimes sg.Jz[q])
                    \oplus (sg.kr[q] \otimes (sg.Jp[q] \ominus sg.Jm[q])) )])
    IN  [sg EXCEPT
          !.F = F,
          !.Jp = [q \in DOMAIN F |-> sg.Jp[q] \oplus (Half \otimes sg.kr[q] \otimes F[q])],
          !.Jm = [q \in DOMAIN F |-> sg.Jm[q] \oplus (CNeg(Half) \otimes sg.kr[q] \otimes F[q])],
          !.Jz = [q \in DOMAIN F |-> sg.Jz[q] \oplus (CNeg(i) \otimes sg.kz[q] \otimes F[q])]]

\* A rho_diff always taken from the charge densities projected on the grid.
SG_rho_diff_from_rho(sg, ps, use_true_rho) ==
    [q \in DOMAIN sg.Ep |->
        (ps.rho_next_coef[q] \otimes sg.rho_next[q])
          \ominus (ps.rho_prev_coef[q] \otimes sg.rho_prev[q])]

\* The auxiliary array rho_diff of push_eb_with (lines 702 to 711).
SG_rho_diff(sg, ps, use_true_rho) ==
    [q \in DOMAIN sg.Ep |->
        IF use_true_rho
        THEN (ps.rho_next_coef[q] \otimes sg.rho_next[q])
               \ominus (ps.rho_prev_coef[q] \otimes sg.rho_prev[q])
        ELSE ( (ps.rho_next_coef[q] \ominus ps.rho_prev_coef[q]) \otimes epsilon_0 \otimes
                 ( ((sg.kr[q] \otimes sg.Ep[q]) \ominus (sg.kr[q] \otimes sg.Em[q]))
                   \oplus (i \otimes sg.kz[q] \otimes sg.Ez[q]) ) )
             \ominus
             ( ps.rho_next_coef[q] \otimes ps.dt \otimes
                 ( ((sg.kr[q] \otimes sg.Jp[q]) \ominus (sg.kr[q] \otimes sg.Jm[q]))
                   \oplus (i \otimes sg.kz[q] \otimes sg.Jz[q]) ) )]

\* The push of E (lines 714 to 724 with particle feedback, 743 to 750
\* without): reads E, B, J of the grid, writes Ep, Em, Ez.
SG_push_e(sg, ps, ptcl_feedback, use_true_rho) ==
    LET c2 == c \otimes c
        D == sg.Ep
        rho_diff == Computed(IF ptcl_feedback THEN SG_rho_diff(sg, ps, use_true_rho)
                             ELSE zeros(sg.Nz, sg.Nr))
        \* mu_0*J, left out without particle feedback
        mJ(J, q) == IF ptcl_feedback THEN mu_0 \otimes J[q] ELSE Zero
    IN  [sg EXCEPT
          !.Ep = [q \in DOMAIN D |->
                    (ps.C[q] \otimes sg.Ep[q])
                    \oplus (Half \otimes sg.kr[q] \otimes rho_diff[q])
                    \oplus (c2 \otimes ps.S_w[q] \otimes
                        ( ((CNeg(i) \otimes Half \otimes sg.kr[q] \otimes sg.Bz[q])
                           \oplus (sg.kz[q] \otimes sg.Bp[q]))
                          \ominus mJ(sg.Jp, q) ))],
          !.Em = [q \in DOMAIN D |->
                    ((ps.C[q] \otimes sg.Em[q])
                      \ominus (Half \otimes sg.kr[q] \otimes rho_diff[q]))
                    \oplus (c2 \otimes ps.S_w[q] \otimes
                        ( ((CNeg(i) \otimes Half \otimes sg.kr[q] \otimes sg.Bz[q])
                           \ominus (sg.kz[q] \otimes sg.Bm[q]))
                          \ominus mJ(sg.Jm, q) ))],
          !.Ez = [q \in DOMAIN D |->
                    ((ps.C[q] \otimes sg.Ez[q])
                      \ominus (i \otimes sg.kz[q] \otimes rho_diff[q]))
                    \oplus (c2 \otimes ps.S_w[q] \otimes
                        ( ((i \otimes sg.kr[q] \otimes sg.Bp[q])
                           \oplus (i \otimes sg.kr[q] \otimes sg.Bm[q]))
                          \ominus mJ(sg.Jz, q) ))]]

\* The push of B (lines 727 to 737 with particle feedback, 753 to 760
\* without): reads B, J of the grid and the E saved in ps, writes Bp, Bm, Bz.
SG_push_b(sg, ps, ptcl_feedback) ==
    LET D == sg.Bp
        jc(q) == IF ptcl_feedback THEN ps.j_coef[q] ELSE Zero
    IN  [sg EXCEPT
          !.Bp = [q \in DOMAIN D |->
                    ((ps.C[q] \otimes sg.Bp[q])
                      \ominus (ps.S_w[q] \otimes
                          ( (CNeg(i) \otimes Half \otimes sg.kr[q] \otimes ps.Ez[q])
                            \oplus (sg.kz[q] \otimes ps.Ep[q]) )))
                    \oplus (jc(q) \otimes
                          ( (CNeg(i) \otimes Half \otimes sg.kr[q] \otimes sg.Jz[q])
                            \oplus (sg.kz[q] \otimes sg.Jp[q]) ))],
          !.Bm = [q \in DOMAIN D |->
                    ((ps.C[q] \otimes sg.Bm[q])
                      \ominus (ps.S_w[q] \otimes
                          ( (CNeg(i) \otimes Half \otimes sg.kr[q] \otimes ps.Ez[q])
                            \ominus (sg.kz[q] \otimes ps.Em[q]) )))
                    \oplus (jc(q) \otimes
                          ( (CNeg(i) \otimes Half \otimes sg.kr[q] \otimes sg.Jz[q])
                            \ominus (sg.kz[q] \otimes sg.Jm[q]) ))],
          !.Bz = [q \in DOMAIN D |->
                    ((ps.C[q] \otimes sg.Bz[q])
                      \ominus (ps.S_w[q] \otimes
                          ( (i \otimes sg.kr[q] \otimes ps.Ep[q])
                            \oplus (i \otimes sg.kr[q] \otimes ps.Em[q]) )))
                    \oplus (jc(q) \otimes
                          ( (i \otimes sg.kr[q] \otimes sg.Jp[q])
                            \oplus (i \otimes sg.kr[q] \otimes sg.Jm[q]) ))]]

\* A push that does not save E: B is advanced with the scratch arrays as
\* they were.
PS_save_e_skipped(sg, ps) == ps

\* The copy of E into the scratch arrays of ps (lines 694 to 696).
PS_save_e(sg, ps) == [ps EXCEPT !.Ep = sg.Ep, !.Em = sg.Em, !.Ez = sg.Ez]

\* A push_eb_with that compares the mode indices after it has saved E.
SG_push_eb_with_late_assert(sg, ps, ptcl_feedback, use_true_rho) ==
    IF sg.m # ps.m
    THEN [sg |-> sg, ps |-> PS_save_e(sg, ps), err |-> "AssertionError"]
    ELSE [sg |-> SG_push_b(Computed(SG_push_e(sg, PS_save_e(sg, ps), ptcl_feedback,
                                              use_true_rho)),
                           PS_save_e(sg, ps), ptcl_feedback),
          ps |-> PS_save_e(sg, ps), err |-> ""]

\* A push_eb_with that saves E after it has pushed it: B is advanced with
\* the new E.
SG_push_eb_with_saved_late(sg, ps, ptcl_feedback, use_true_rho) ==
    IF sg.m # ps.m
    THEN [sg |-> sg, ps |-> ps, err |-> "AssertionError"]
    ELSE LET sg1 == Computed(SG_push_e(sg, ps, ptcl_feedback, use_true_rho))
             ps1 == PS_save_e(sg1, ps)
         IN  [sg |-> SG_push_b(sg1, ps1, ptcl_feedback), ps |-> ps1, err |-> ""]

\* A push_eb_with that takes the branch with particle feedback whatever
\* the flag.
SG_push_eb_with_always_feedback(sg, ps, ptcl_feedback, use_true_rho) ==
    IF sg.m # ps.m
    THEN [sg |-> sg, ps |-> ps, err |-> "AssertionError"]
    ELSE LET ps1 == PS_save_e(sg, ps)
             sg1 == Computed(SG_push_e(sg, ps1, TRUE, use_true_rho))
         IN  [sg |-> SG_push_b(sg1, ps1, TRUE), ps |-> ps1, err |-> ""]

\* A push_eb_with that also rotates the charge densities.
SG_push_eb_with_rotating_rho(sg, ps, ptcl_feedback, use_true_rho) ==
    IF sg.m # ps.m
    THEN [sg |-> sg, ps |-> ps, err |-> "AssertionError"]
    ELSE LET ps1 == PS_save_e(sg, ps)
             sg1 == Computed(SG_push_e(sg, ps1, ptcl_feedback, use_true_rho))
         IN  [sg |-> [SG_push_b(sg1, ps1, ptcl_feedback) EXCEPT
                        !.rho_prev = sg.rho_next, !.rho_next = zeros(sg.Nz, sg.Nr)],
              ps |-> ps1, err |-> ""]

\* SpectralGrid.push_eb_with( ps, ptcl_feedback, use_true_rho ) (lines 650 to
\* 760).  The result holds the grid and the coefficients object as the call
\* leaves them, and err, the exception it raised ("" when it returned).
SG_push_eb_with(sg, ps, ptcl_feedback, use_true_rho) ==
    IF sg.m # ps.m
    THEN [sg |-> sg, ps |-> ps, err |-> "AssertionError"]
    ELSE LET ps1 == PS_save_e(sg, ps)
             sg1 == Computed(SG_push_e(sg, ps1, ptcl_feedback, use_true_rho))
         IN  [sg |-> SG_push_b(sg1, ps1, ptcl_feedback), ps |-> ps1, err |-> ""]

\* A push_rho that erases rho_next before it copies it.
SG_push_rho_erase_first(sg) ==
    [sg EXCEPT !.rho_prev = zeros(sg.Nz, sg.Nr), !.rho_next = zeros(sg.Nz, sg.Nr)]

\* A push_rho that copies rho_next and does not erase it.
SG_push_rho_copy_only(sg) == [sg EXCEPT !.rho_prev = sg.rho_next]

\* SpectralGrid.push_rho() (lines 762 to 777)
SG_push_rho(sg) ==
    LET sg1 == [sg EXCEPT !.rho_prev = sg.rho_next]
    IN  [sg1 EXCEPT !.rho_next = zeros(sg.Nz, sg.Nr)]

\* The arrays SpectralGrid.filter and the transforms address by fieldtype.
SpectKinds == {"E", "B", "J", "rho_prev", "rho_next"}
SpectArrays(fieldtype) ==
    CASE fieldtype = "E" -> <<"Ep", "Em", "Ez">>
      [] fieldtype = "B" -> <<"Bp", "Bm", "Bz">>
      [] fieldtype = "J" -> <<"Jp", "Jm", "Jz">>
      [] fieldtype = "rho_prev" -> <<"rho_prev">>
      [] fieldtype = "rho_next" -> <<"rho_next">>

\* The product assigned to filter_array instead of the array named n.
SG_filter_array_into_filter(sg, n) ==
    [sg EXCEPT !.filter_array = [q \in DOMAIN sg[n] |-> sg[n][q] \otimes sg.filter_array[q]]]

\* sg with the array named n multiplied by filter_array.
SG_filter_array(sg, n) ==
    [sg EXCEPT ![n] = [q \in DOMAIN sg[n] |-> sg[n][q] \otimes sg.filter_array[q]]]

\* sg with each array named in names multiplied by filter_array.
RECURSIVE SG_filter_arrays(_, _)
SG_filter_arrays(sg, names) ==
    IF names = <<>> THEN sg
    ELSE SG_filter_arrays(Computed(SG_filter_array(sg, Head(names))), Tail(names))

\* SpectralGrid.filter( fieldtype ) (lines 779 to 831), on the CPU.
SG_filter(sg, fieldtype) ==
    IF fieldtype \in SpectKinds
    THEN [sg |-> SG_filter_arrays(sg, SpectArrays(fieldtype)), err |-> ""]
    ELSE [sg |-> sg, err |-> "ValueError"]

----------------------------------------------------------------------------
(* InterpolationGrid.filter and binomial_filter                            *)

\* A binomial_filter along z without the copy of F: the two end rows are
\* computed from rows the call has already written.
binomial_filter_in_place(F, Nz, Nr, direction, sign_guard) ==
    LET inner == [q \in DOMAIN F |->
                    IF 0 < q[1] /\ q[1] < Nz - 1
                    THEN (Quarter \otimes F[<<q[1] - 1, q[2]>>]) \oplus (Half \otimes F[q])
                           \oplus (Quarter \otimes F[<<q[1] + 1, q[2]>>])
                    ELSE F[q]]
        first == [q \in DOMAIN F |->
                    IF q[1] = 0
                    THEN (Quarter \otimes inner[<<Nz - 1, q[2]>>]) \oplus (Half \otimes inner[q])
                           \oplus (Quarter \otimes inner[<<1, q[2]>>])
                    ELSE inner[q]]
    IN  IF direction = "z"
        THEN [q \in DOMAIN F |->
                IF q[1] = Nz - 1
                THEN (Quarter \otimes first[<<Nz - 2, q[2]>>]) \oplus (Half \otimes first[q])
                       \oplus (Quarter \otimes first[<<0, q[2]>>])
                ELSE first[q]]
        ELSE F

\* binomial_filter( F, direction, sign_guard ) (lines 1147 to 1195): the new
\* contents of F, for direction 'z' or 'r'.  Negative indices count from the
\* end of the axis.
binomial_filter(F, Nz, Nr, direction, sign_guard) ==
    LET Fu == F
    IN  IF direction = "z"
        THEN [q \in DOMAIN F |->
               LET ir == q[2]
                   U(iz) == Fu[<<iz, ir>>]
               IN  CASE q[1] = 0 ->
                          (Quarter \otimes U(Nz - 1)) \oplus (Half \otimes U(0))
                            \oplus (Quarter \otimes U(1))
                     [] q[1] = Nz - 1 ->
                          (Quarter \otimes U(Nz - 2)) \oplus (Half \otimes U(Nz - 1))
                            \oplus (Quarter \otimes U(0))
                     [] OTHER ->
                          (Quarter \otimes U(q[1] - 1)) \oplus (Half \otimes U(q[1]))
                            \oplus (Quarter \otimes U(q[1] + 1))]
        ELSE [q \in DOMAIN F |->
               LET iz == q[1]
                   U(ir) == Fu[<<iz, ir>>]
               IN  CASE q[2] = 0 ->
                          (Quarter \otimes Z(sign_guard) \otimes U(0)) \oplus (Half \otimes U(0))
                            \oplus (Half \otimes U(1))
                     [] q[2] = Nr - 1 ->
                          (Quarter \otimes U(Nr - 1)) \oplus (Half \otimes U(Nr - 1))
                            \oplus (Quarter \otimes U(Nr - 2))
                     [] OTHER ->
                          (Quarter \otimes U(q[2] - 1)) \oplus (Half \otimes U(q[2]))
                            \oplus (Quarter \otimes U(q[2] + 1))]

\* (-1)**m
MinusOnePow(m) == IF m % 2 = 0 THEN 1 ELSE -1

InterpKinds == {"E", "B", "J", "rho"}
\* The arrays of a field group on the interpolation grid, and whether each
\* is a transverse component (guard sign -(-1)**m) or not (guard sign
\* (-1)**m), lines 486 to 499.
InterpArrays(fieldtype) ==
    CASE fieldtype = "E" -> <<"Er", "Et", "Ez">>
      [] fieldtype = "B" -> <<"Br", "Bt", "Bz">>
      [] fieldtype = "J" -> <<"Jr", "Jt", "Jz">>
      [] fieldtype = "rho" -> <<"rho">>
IG_sign_guard(name, m) ==
    IF name \in {"Er", "Et", "Br", "Bt", "Jr", "Jt"}
    THEN 0 - MinusOnePow(m) ELSE MinusOnePow(m)

\* ig with binomial_filter applied to the array named n.
IG_filter_array(ig, n, direction) ==
    [ig EXCEPT ![n] = binomial_filter(ig[n], ig.Nz, ig.Nr, direction,
                                      IG_sign_guard(n, ig.m))]

RECURSIVE IG_filter_arrays(_, _, _)
IG_filter_arrays(ig, names, direction) ==
    IF names = <<>> THEN ig
    ELSE IG_filter_arrays(Computed(IG_filter_array(ig, Head(names), direction)),
                          Tail(names), direction)

\* InterpolationGrid.filter( fieldtype, direction ) (lines 470 to 501).  An
\* unrecognized direction raises in the first binomial_filter call, after
\* the copy of F and before any write.
IG_filter(ig, fieldtype, direction) ==
    IF fieldtype \notin InterpKinds THEN [ig |-> ig, err |-> "ValueError"]
    ELSE IF direction \notin {"r", "z"} THEN [ig |-> ig, err |-> "ValueError"]
    ELSE [ig |-> IG_filter_arrays(ig, InterpArrays(fieldtype), direction), err |-> ""]

----------------------------------------------------------------------------
(* SpectralTransformer: the methods                                        *)

\* A statement that writes one buffer of the transformer: the plans fft_r,
\* ifft_r (lines 1008, 1010) and fft_t, ifft_t (lines 1018, 1020) transform
\* between interp_buffer_r and spect_buffer_r, interp_buffer_t and
\* spect_buffer_t; copy_in is buffer[:,:] = array.
ST_fft_r(tr) ==
    Computed([tr EXCEPT !.spect_buffer_r = FFT_forward(tr.Nz, tr.interp_buffer_r)])
ST_fft_t(tr) ==
    Computed([tr EXCEPT !.spect_buffer_t = FFT_forward(tr.Nz, tr.interp_buffer_t)])
ST_ifft_r(tr) ==
    Computed([tr EXCEPT !.interp_buffer_r = FFT_backward(tr.Nz, tr.spect_buffer_r)])
ST_ifft_t(tr) ==
    Computed([tr EXCEPT !.interp_buffer_t = FFT_backward(tr.Nz, tr.spect_buffer_t)])
ST_copy_in(tr, buffer, array) == Computed([tr EXCEPT ![buffer] = array])
\* dht.inverse_transform( spect_array, buffer ) for the transform of order p
ST_dht_inverse(tr, p, spect_array, buffer) ==
    Computed([tr EXCEPT ![buffer] = DHT_inverse_transform(p, spect_array)])

\* spect2interp_scal( spect_array, interp_array ) (lines 1023 to 1045): the
\* transformer as the call leaves it, and the new contents of interp_array.
ST_return_scal(tr) == [tr |-> tr, interp_array |-> tr.interp_buffer_r]

ST_spect2interp_scal(tr, spect_array) ==
    ST_return_scal(ST_ifft_r(ST_dht_inverse(tr, tr.dht0, spect_array, "spect_buffer_r")))

\* The combination of lines 1072 to 1074: both right-hand sides are computed
\* from the buffers before either buffer is written.
ST_combine_rt(tr) ==
    Computed([tr EXCEPT
      !.spect_buffer_r = [q \in DOMAIN tr.spect_buffer_r |->
                            tr.spect_buffer_r[q] \oplus tr.spect_buffer_t[q]],
      !.spect_buffer_t = [q \in DOMAIN tr.spect_buffer_t |->
                            i \otimes (tr.spect_buffer_r[q] \ominus tr.spect_buffer_t[q])]])

ST_return_vect(tr) ==
    [tr |-> tr, interp_array_r |-> tr.interp_buffer_r,
     interp_array_t |-> tr.interp_buffer_t]

\* spect2interp_vect( spect_array_p, spect_array_m, interp_array_r,
\* interp_array_t ) (lines 1047 to 1082).  spect_buffer_p is spect_buffer_r
\* and spect_buffer_m is spect_buffer_t.  The statements apply from the
\* innermost outwards.
ST_spect2interp_vect(tr, spect_array_p, spect_array_m) ==
    ST_return_vect(
      ST_ifft_t(
        ST_ifft_r(
          ST_combine_rt(
            ST_dht_inverse(
              ST_dht_inverse(tr, tr.dhtp, spect_array_p, "spect_buffer_r"),
              tr.dhtm, spect_array_m, "spect_buffer_t")))))

\* interp2spect_scal( interp_array, spect_array ) (lines 1084 to 1105)
ST_transform_scal(tr) ==
    [tr |-> tr, spect_array |-> DHT_transform(tr.dht0, tr.spect_buffer_r)]

ST_interp2spect_scal(tr, interp_array) ==
    ST_transform_scal(ST_fft_r(ST_copy_in(tr, "interp_buffer_r", interp_array)))

\* The combination written in place: spect_buffer_r is overwritten, and
\* spect_buffer_t is then computed from the new spect_buffer_r.
ST_combine_pm_in_place(tr) ==
    Computed([tr EXCEPT
      !.spect_buffer_r = [q \in DOMAIN tr.spect_buffer_r |->
          Half \otimes (tr.spect_buffer_r[q] \ominus (i \otimes tr.spect_buffer_t[q]))],
      !.spect_buffer_t = [q \in DOMAIN tr.spect_buffer_t |->
          Half \otimes ((Half \otimes (tr.spect_buffer_r[q]
                                         \ominus (i \otimes tr.spect_buffer_t[q])))
                        \oplus (i \otimes tr.spect_buffer_t[q]))]])

\* The combination of lines 1134 to 1136, computed before either write.
ST_combine_pm(tr) ==
    Computed([tr EXCEPT
      !.spect_buffer_r = [q \in DOMAIN tr.spect_buffer_r |->
          Half \otimes (tr.spect_buffer_r[q] \ominus (i \otimes tr.spect_buffer_t[q]))],
      !.spect_buffer_t = [q \in DOMAIN tr.spect_buffer_t |->
          Half \otimes (tr.spect_buffer_r[q] \oplus (i \otimes tr.spect_buffer_t[q]))]])

ST_transform_vect(tr) ==
    [tr |-> tr, spect_array_p |-> DHT_transform(tr.dhtp, tr.spect_buffer_r),
     spect_array_m |-> DHT_transform(tr.dhtm, tr.spect_buffer_t)]

\* interp2spect_vect( interp_array_r, interp_array_t, spect_array_p,
\* spect_array_m ) (lines 1107 to 1140)
ST_interp2spect_vect(tr, interp_array_r, interp_array_t) ==
    ST_transform_vect(
      ST_combine_pm(
        ST_fft_t(
          ST_copy_in(
            ST_fft_r(ST_copy_in(tr, "interp_buffer_r", interp_array_r)),
            "interp_buffer_t", interp_array_t))))

----------------------------------------------------------------------------
(* Fields: the methods, on the CPU.  A method runs a sequence of calls on  *)
(* the objects of the modes, in program order; a call that raises ends the *)
(* method, and what was written before stays written.                      *)

\* One call: f names the callee, m the mode whose objects it is called on,
\* ps the index of the PsatdCoeffs passed, fb the ptcl_feedback passed, a and
\* b the fieldtype tags or the names of the arrays read and written.
Call(f, m, ps, fb, a, b) == [f |-> f, m |-> m, ps |-> ps, fb |-> fb, a |-> a, b |-> b]

\* The concatenation of body[0], ..., body[n-1]: for m in range(n).
RECURSIVE ForRange(_, _)
ForRange(n, body) == IF n = 0 THEN <<>> ELSE ForRange(n - 1, body) \o body[n - 1]

\* A push that rotates the charge densities of a mode before it advances
\* the fields of that mode.
Fields_push_rho_first(fs, ptcl_feedback) ==
    ForRange(fs.Nm, [m \in 0 .. fs.Nm - 1 |->
        << Call("push_rho", m, m, FALSE, <<>>, <<>>),
           Call("push_eb_with", m, m, ptcl_feedback, <<>>, <<>>) >>])

\* A push that advances E and B and leaves the charge densities as they
\* are.
Fields_push_fields_only(fs, ptcl_feedback) ==
    ForRange(fs.Nm, [m \in 0 .. fs.Nm - 1 |->
        << Call("push_eb_with", m, m, ptcl_feedback, <<>>, <<>>) >>])

\* A push that passes to the grid of mode m the coefficients of the next
\* mode.
Fields_push_next_coeffs(fs, ptcl_feedback) ==
    ForRange(fs.Nm, [m \in 0 .. fs.Nm - 1 |->
        << Call("push_eb_with", m, (m + 1) % fs.Nm, ptcl_feedback, <<>>, <<>>),
           Call("push_rho", m, m, FALSE, <<>>, <<>>) >>])

\* Fields.push( ptcl_feedback ) (lines 141 to 154)
Fields_push(fs, ptcl_feedback) ==
    ForRange(fs.Nm, [m \in 0 .. fs.Nm - 1 |->
        << Call("push_eb_with", m, m, ptcl_feedback, <<>>, <<>>),
           Call("push_rho", m, m, FALSE, <<>>, <<>>) >>])

\* Fields.correct_currents() (lines 156 to 163)
Fields_correct_currents(fs) ==
    ForRange(fs.Nm, [m \in 0 .. fs.Nm - 1 |->
        << Call("correct_currents", m, m, FALSE, <<>>, <<>>) >>])

Raise(err) == << Call("raise", 0, 0, FALSE, <<err>>, <<>>) >>

\* Fields.interp2spect( fieldtype ) (lines 165 to 212)
Fields_interp2spect(fs, fieldtype) ==
    CASE fieldtype \in {"E", "B", "J"} ->
           ForRange(fs.Nm, [m \in 0 .. fs.Nm - 1 |->
             << Call("interp2spect_scal", m, m, FALSE,
                     <<InterpArrays(fieldtype)[3]>>, <<SpectArrays(fieldtype)[3]>>),
                Call("interp2spect_vect", m, m, FALSE,
                     SubSeq(InterpArrays(fieldtype), 1, 2),
                     SubSeq(SpectArrays(fieldtype), 1, 2)) >>])
      [] fieldtype \in {"rho_next", "rho_prev"} ->
           ForRange(fs.Nm, [m \in 0 .. fs.Nm - 1 |->
             << Call("interp2spect_scal", m, m, FALSE, <<"rho">>, <<fieldtype>>) >>])
      [] OTHER -> Raise("ValueError")

\* Fields.spect2interp( fieldtype ) (lines 214 to 256)
Fields_spect2interp(fs, fieldtype) ==
    CASE fieldtype \in {"E", "B", "J"} ->
           ForRange(fs.Nm, [m \in 0 .. fs.Nm - 1 |->
             << Call("spect2interp_scal", m, m, FALSE,
                     <<SpectArrays(fieldtype)[3]>>, <<InterpArrays(fieldtype)[3]>>),
                Call("spect2interp_vect", m, m, FALSE,
                     SubSeq(SpectArrays(fieldtype), 1, 2),
                     SubSeq(InterpArrays(fieldtype), 1, 2)) >>])
      [] fieldtype = "rho" ->
           ForRange(fs.Nm, [m \in 0 .. fs.Nm - 1 |->
             << Call("spect2interp_scal", m, m, FALSE, <<"rho_next">>, <<"rho">>) >>])
      [] OTHER -> Raise("ValueError")

\* One assignment per array of the group: <<f, a1>>, <<f, a2>>, ...
EachArray(f, m, names) ==
    [k \in 1 .. Len(names) |-> Call(f, m, m, FALSE, <<names[k]>>, <<names[k]>>)]

\* The accelerator branches of erase and divide_by_volume pass the arrays
\* of self.interp[0] and self.interp[1] to one kernel (lines 273 to 290 and
\* 368 to 379): the number of modes they address.
CudaModes == 2

\* The calls of an accelerator branch: evaluating self.interp[1] raises
\* IndexError on a list of fewer than two modes; the kernel of
\* cuda_methods then does, on the arrays it is passed, what the CPU
\* statements do on each.
OnCuda(fs, f, fieldtype) ==
    IF fs.Nm < CudaModes THEN Raise("IndexError")
    ELSE ForRange(CudaModes, [m \in 0 .. CudaModes - 1 |->
           EachArray(f, m, InterpArrays(fieldtype))])

\* An erase that zeroes only the first array of the group.
Fields_erase_first_array(fs, fieldtype) ==
    IF fieldtype \notin InterpKinds THEN Raise("ValueError")
    ELSE ForRange(fs.Nm, [m \in 0 .. fs.Nm - 1 |->
           EachArray("erase", m, <<InterpArrays(fieldtype)[1]>>)])

\* Fields.erase( fieldtype ) (lines 258 to 314)
Fields_erase(fs, fieldtype) ==
    IF fieldtype \notin InterpKinds THEN Raise("ValueError")
    ELSE IF fs.use_cuda THEN OnCuda(fs, "erase", fieldtype)
    ELSE ForRange(fs.Nm, [m \in 0 .. fs.Nm - 1 |->
           EachArray("erase", m, InterpArrays(fieldtype))])

\* Fields.filter_interp( fieldtype, direction ) (lines 316 to 334)
Fields_filter_interp(fs, fieldtype, direction) ==
    ForRange(fs.Nm, [m \in 0 .. fs.Nm - 1 |->
        << Call("InterpolationGrid.filter", m, m, FALSE, <<fieldtype, direction>>, <<>>) >>])

\* Fields.filter_spect( fieldtype ) (lines 336 to 347)
Fields_filter_spect(fs, fieldtype) ==
    ForRange(fs.Nm, [m \in 0 .. fs.Nm - 1 |->
        << Call("SpectralGrid.filter", m, m, FALSE, <<fieldtype>>, <<>>) >>])

\* Fields.divide_by_volume( fieldtype ) (lines 349 to 397)
Fields_divide_by_volume(fs, fieldtype) ==
    IF fieldtype \notin {"rho", "J"} THEN Raise("ValueError")
    ELSE IF fs.use_cuda THEN OnCuda(fs, "divide_by_volume", fieldtype)
    ELSE ForRange(fs.Nm, [m \in 0 .. fs.Nm - 1 |->
           EachArray("divide_by_volume", m, InterpArrays(fieldtype))])

\* What a call leaves in the Fields object fs: r is what the callee
\* returned, which the caller's arrays named in cl.b receive.
Left_push_eb_with(fs, cl, r) ==
    [fs |-> [fs EXCEPT !.spect[cl.m] = r.sg, !.psatd[cl.ps] = r.ps], err |-> r.err]
Left_interp2spect_scal(fs, cl, r) ==
    [fs |-> [fs EXCEPT !.trans[cl.m] = r.tr,
                       !.spect[cl.m][cl.b[1]] = r.spect_array], err |-> ""]
\* The result written to an array that all the modes share.
Left_interp2spect_vect_shared(fs, cl, r) ==
    [fs |-> [fs EXCEPT
               !.trans[cl.m] = r.tr,
               !.spect = [mm \in DOMAIN fs.spect |->
                            [fs.spect[mm] EXCEPT ![cl.b[1]] = r.spect_array_p,
                                                 ![cl.b[2]] = r.spect_array_m]]],
     err |-> ""]
Left_interp2spect_vect(fs, cl, r) ==
    [fs |-> [fs EXCEPT !.trans[cl.m] = r.tr,
                       !.spect[cl.m][cl.b[1]] = r.spect_array_p,
                       !.spect[cl.m][cl.b[2]] = r.spect_array_m], err |-> ""]
Left_spect2interp_scal(fs, cl, r) ==
    [fs |-> [fs EXCEPT !.trans[cl.m] = r.tr,
                       !.interp[cl.m][cl.b[1]] = r.interp_array], err |-> ""]
Left_spect2interp_vect(fs, cl, r) ==
    [fs |-> [fs EXCEPT !.trans[cl.m] = r.tr,
                       !.interp[cl.m][cl.b[1]] = r.interp_array_r,
                       !.interp[cl.m][cl.b[2]] = r.interp_array_t], err |-> ""]
Left_IG_filter(fs, cl, r) == [fs |-> [fs EXCEPT !.interp[cl.m] = r.ig], err |-> r.err]
Left_SG_filter(fs, cl, r) == [fs |-> [fs EXCEPT !.spect[cl.m] = r.sg], err |-> r.err]

\* array * invvol[np.newaxis,:] (lines 382 to 397)
IG_divide_by_volume(ig, array) == [q \in DOMAIN array |-> array[q] \otimes ig.invvol[q[2]]]

\* The effect of one call on the Fields object fs: the object as the call
\* leaves it, and the exception raised ("" when the call returned).
Apply(fs, cl) ==
    CASE cl.f = "raise" -> [fs |-> fs, err |-> cl.a[1]]
      [] cl.f = "push_eb_with" ->
           Left_push_eb_with(fs, cl,
             SG_push_eb_with(fs.spect[cl.m], fs.psatd[cl.ps], cl.fb, FALSE))
      [] cl.f = "push_rho" ->
           [fs |-> [fs EXCEPT !.spect[cl.m] = SG_push_rho(fs.spect[cl.m])], err |-> ""]
      [] cl.f = "correct_currents" ->
           [fs |-> [fs EXCEPT !.spect[cl.m] = SG_correct_currents(fs.spect[cl.m], fs.dt)],
            err |-> ""]
      [] cl.f = "interp2spect_scal" ->
           Left_interp2spect_scal(fs, cl,
             ST_interp2spect_scal(fs.trans[cl.m], fs.interp[cl.m][cl.a[1]]))
      [] cl.f = "interp2spect_vect" ->
           Left_interp2spect_vect(fs, cl,
             ST_interp2spect_vect(fs.trans[cl.m], fs.interp[cl.m][cl.a[1]],
                                  fs.interp[cl.m][cl.a[2]]))
      [] cl.f = "spect2interp_scal" ->
           Left_spect2interp_scal(fs, cl,
             ST_spect2interp_scal(fs.trans[cl.m], fs.spect[cl.m][cl.a[1]]))
      [] cl.f = "spect2interp_vect" ->
           Left_spect2interp_vect(fs, cl,
             ST_spect2interp_vect(fs.trans[cl.m], fs.spect[cl.m][cl.a[1]],
                                  fs.spect[cl.m][cl.a[2]]))
      [] cl.f = "erase" ->
           [fs |-> [fs EXCEPT !.interp[cl.m][cl.b[1]] = zeros(fs.Nz, fs.Nr)], err |-> ""]
      [] cl.f = "divide_by_volume" ->
           [fs |-> [fs EXCEPT !.interp[cl.m][cl.b[1]] =
                      IG_divide_by_volume(fs.interp[cl.m], fs.interp[cl.m][cl.a[1]])],
            err |-> ""]
      [] cl.f = "InterpolationGrid.filter" ->
           Left_IG_filter(fs, cl, IG_filter(fs.interp[cl.m], cl.a[1], cl.a[2]))
      [] cl.f = "SpectralGrid.filter" ->
           Left_SG_filter(fs, cl, SG_filter(fs.spect[cl.m], cl.a[1]))

\* The calls of todo run in order on fs, up to the first that raises: the
\* Fields object at the end, the exception, and the calls made.
RECURSIVE Run(_, _, _)
\* What follows the first call of todo, which left r.
Continue(r, todo, made) ==
    IF r.err # "" THEN [fs |-> r.fs, err |-> r.err, calls |-> Append(made, Head(todo))]
    ELSE Run(r.fs, Tail(todo), Append(made, Head(todo)))

Run(fs, todo, made) ==
    IF todo = <<>> THEN [fs |-> fs, err |-> "", calls |-> made]
    ELSE Continue(Computed(Apply(fs, Head(todo))), todo, made)

----------------------------------------------------------------------------
(* The stages of one mode, statement by statement                          *)

\* The calls of one timestep on the objects of mode m: the transforms of
\* the deposited sources (lines 201 to 210 and 185 to 190), the current
\* correction (line 163) and the push (lines 153, 154).
ModeCalls(m) ==
    << Call("interp2spect_scal", m, m, FALSE, <<"rho">>, <<"rho_next">>),
       Call("interp2spect_scal", m, m, FALSE, <<"Jz">>, <<"Jz">>),
       Call("interp2spect_vect", m, m, FALSE, <<"Jr", "Jt">>, <<"Jp", "Jm">>),
       Call("correct_currents", m, m, FALSE, <<>>, <<>>),
       Call("push_eb_with", m, m, TRUE, <<>>, <<>>),
       Call("push_rho", m, m, FALSE, <<>>, <<>>) >>

\* The statements of a call of interp2spect_scal (lines 1101 to 1105) and
\* of interp2spect_vect (lines 1125 to 1140), in program order; a call of
\* a method of SpectralGrid is one statement.
Statements(cl) ==
    CASE cl.f = "interp2spect_scal" ->
           << Call("copy_in", cl.m, 0, FALSE, cl.a, <<"interp_buffer_r">>),
              Call("fft_r", cl.m, 0, FALSE, <<>>, <<>>),
              Call("dht_transform", cl.m, 0, FALSE, <<"spect_buffer_r", "dht0">>, cl.b) >>
      [] cl.f = "interp2spect_vect" ->
           << Call("copy_in", cl.m, 0, FALSE, <<cl.a[1]>>, <<"interp_buffer_r">>),
              Call("fft_r", cl.m, 0, FALSE, <<>>, <<>>),
              Call("copy_in", cl.m, 0, FALSE, <<cl.a[2]>>, <<"interp_buffer_t">>),
              Call("fft_t", cl.m, 0, FALSE, <<>>, <<>>),
              Call("combine_pm", cl.m, 0, FALSE, <<>>, <<>>),
              Call("dht_transform", cl.m, 0, FALSE, <<"spect_buffer_r", "dhtp">>, <<cl.b[1]>>),
              Call("dht_transform", cl.m, 0, FALSE, <<"spect_buffer_t", "dhtm">>, <<cl.b[2]>>) >>
      [] OTHER -> << cl >>

RECURSIVE StatementsOf(_)
StatementsOf(cls) ==
    IF cls = <<>> THEN <<>> ELSE Statements(Head(cls)) \o StatementsOf(Tail(cls))

\* What the statement st of mode st.m leaves of the Fields object fs, with
\* the transformer of mode tm as self.
StatementOn(fs, st, tm) ==
    CASE st.f = "copy_in" ->
           [fs EXCEPT !.trans[tm] = ST_copy_in(@, st.b[1], fs.interp[st.m][st.a[1]])]
      [] st.f = "fft_r" -> [fs EXCEPT !.trans[tm] = ST_fft_r(@)]
      [] st.f = "fft_t" -> [fs EXCEPT !.trans[tm] = ST_fft_t(@)]
      [] st.f = "combine_pm" -> [fs EXCEPT !.trans[tm] = ST_combine_pm(@)]
      [] st.f = "dht_transform" ->
           [fs EXCEPT !.spect[st.m][st.b[1]] =
              DHT_transform(fs.trans[st.m][st.a[2]], fs.trans[tm][st.a[1]])]
      [] OTHER -> Apply(fs, st).fs

\* The statement run on the scratch buffers of one transformer, whatever
\* the mode.
ApplyStatement_one_transformer(fs, st) == StatementOn(fs, st, 0)

\* self is self.trans[m], the transformer of the mode (lines 107 to 114).
ApplyStatement(fs, st) == StatementOn(fs, st, st.m)

----------------------------------------------------------------------------
(* The state                                                               *)

VARIABLES
    pc,       \* "new": the constructor is about to run; "ready"; "failed"
    args,     \* the arguments of Fields.__init__ while pc = "new"
    Nz, Nr, Nm, dt,              \* the attributes registered by Fields.__init__
    use_cuda,                    \* the attribute use_cuda of the Fields object
    interp, spect, psatd, trans, \* the lists of per-mode objects
    last,     \* the last operation: its name, arguments and exception
    calls,    \* the calls the last operation made on the per-mode objects
    written,  \* the modes whose arrays a caller has written into
    steps,    \* the number of operations so far
    pending,     \* per mode, the calls a concurrent run has still to make
    begun,    \* the Fields object when the concurrent run began
    seen      \* per mode, rho_next when correct_currents last ran

vars == <<pc, args, Nz, Nr, Nm, dt, use_cuda, interp, spect, psatd, trans, last,
          calls, written, steps, pending, begun, seen>>


\* The Fields object, as the methods see it.
Self == [Nz |-> Nz, Nr |-> Nr, Nm |-> Nm, dt |-> dt, use_cuda |-> use_cuda,
         interp |-> interp, spect |-> spect, psatd |-> psatd, trans |-> trans]

Op(op, kind, dir, fb, m, ps, d, err) ==
    [op |-> op, kind |-> kind, dir |-> dir, fb |-> fb, m |-> m, ps |-> ps,
     dt |-> d, err |-> err]

\* The arguments the constructor is called with.  zmax is counted in units
\* of 2*pi.  nu_zero tells whether the radial spectral grid of the injected
\* Hankel transform starts at 0; garbage is what the memory of the
\* uninitialised transformer buffers holds.
InitWith(flags) ==
    /\ pc = "new"
    /\ args \in [Nz : NzArgs, zmax : {One}, Nr : NrArgs, rmax : {One},
                 Nm : NmArgs, dt : DtArgs, nu_zero : BOOLEAN, garbage : {One},
                 use_cuda : flags]
    /\ Nz = 0 /\ Nr = 0 /\ Nm = 0 /\ dt = Zero /\ use_cuda = FALSE
    /\ interp = <<>> /\ spect = <<>> /\ psatd = <<>> /\ trans = <<>>
    /\ last = Op("", "", "", FALSE, 0, 0, Zero, "")
    /\ calls = <<>>
    /\ written = {}
    /\ steps = 0
    /\ pending = <<>> /\ begun = <<>> /\ seen = <<>>

\* The constructor is called for the CPU (use_cuda = False, the default).
Init == InitWith({FALSE})

\* The constructor is called for either execution target, on a machine
\* where the import of cuda_methods succeeded (cuda_installed, line 17).
InitCuda == InitWith(BOOLEAN)

\* The rounding with a division that truncates towards zero.
OddNz_truncating(NzArg) ==
    IF NzArg >= 0 THEN 2 * (NzArg \div 2) + 1 ELSE 1 - 2 * ((0 - NzArg) \div 2)

\* Nz = 2*int(Nz/2) + 1 (line 84); the division of two Python 2 integers
\* rounds down.
OddNz(NzArg) == 2 * (NzArg \div 2) + 1

\* Fields.__init__ (lines 53 to 139).  np.fft.fftfreq rejects a negative
\* length, and InterpolationGrid.__init__ reads z[1] and r[1] (lines 442,
\* 443), which do not exist on a grid of one point.
Construct ==
    /\ pc = "new"
    /\ LET nz == OddNz(args.Nz)
           dz == args.zmax \otimes RInv(Z(nz))
           z == [j \in 0 .. nz - 1 |-> dz \otimes Q(2 * j + 1, 2)]
           kz == [j \in 0 .. nz - 1 |-> Z(FreqIndex(nz, j)) \otimes RInv(Z(nz) \otimes dz)]
           kr(m) == DHT_get_kr(m, args.Nr, args.rmax, args.nu_zero)
           fails == nz < 0 \/ (args.Nm >= 1 /\ (nz < 2 \/ args.Nr < 2))
           modes == 0 .. args.Nm - 1
       IN  /\ Nz' = nz /\ Nr' = args.Nr /\ Nm' = args.Nm /\ dt' = args.dt
           /\ use_cuda' = args.use_cuda
           /\ pc' = IF fails THEN "failed" ELSE "ready"
           /\ last' = Op("__init__", "", "", FALSE, args.Nz, 0, args.dt,
                         IF fails THEN "Error" ELSE "")
           /\ IF fails
              THEN UNCHANGED <<interp, spect, psatd, trans>>
              ELSE /\ trans' = [m \in modes |-> ST_init(nz, args.Nr, m, args.garbage)]
                   /\ interp' = [m \in modes |->
                                   IG_init(z, DHT_get_r(args.Nr, args.rmax), m)]
                   /\ spect' = [m \in modes |-> SG_init(kz, kr(m), m)]
                   /\ psatd' = [m \in modes |->
                                  PS_init(spect'[m].kz, spect'[m].kr, m, args.dt,
                                          nz, args.Nr)]
    /\ args' = <<>>
    /\ UNCHANGED <<calls, written, steps, pending, begun, seen>>

\* One method of Fields: op with its arguments, which makes the calls cls.
Did(bound, op, kind, dir, fb, cls) ==
    /\ pc = "ready"
    /\ steps < bound
    /\ \E r \in {Run(Self, cls, <<>>)} :
           /\ interp' = r.fs.interp /\ spect' = r.fs.spect
           /\ psatd' = r.fs.psatd /\ trans' = r.fs.trans
           /\ last' = Op(op, kind, dir, fb, 0, 0, dt, r.err)
           /\ calls' = r.calls
    /\ steps' = steps + 1
    /\ UNCHANGED <<pc, args, Nz, Nr, Nm, dt, use_cuda, pending, begun, written>>

Do(bound, op, kind, dir, fb, cls) == Did(bound, op, kind, dir, fb, cls) /\ UNCHANGED seen

----------------------------------------------------------------------------
(* The callers                                                             *)

\* The content number s of array number k of mode m at point q: a small
\* Gaussian integer that differs between arrays, modes and points.
Pat(s, m, k, q) ==
    << ((3 * s + 2 * k + 2 * q[1] + 7 * q[2] + m) % 5) - 2,
       ((s + k + q[1] + 2 * q[2] + 2 * m) % 3) - 1, 1 >>

PatArray(s, m, k, D) == [q \in D |-> Pat(s, m, k, q)]

\* The deposition writes the sources of one mode on the interpolation grid.
Deposit(bound) ==
    /\ pc = "ready"
    /\ steps < bound
    /\ \E m \in 0 .. Nm - 1, s \in Seeds :
         /\ interp' = [interp EXCEPT
                         ![m].rho = PatArray(s, m, 1, Idx(Nz, Nr)),
                         ![m].Jr = PatArray(s, m, 2, Idx(Nz, Nr)),
                         ![m].Jt = PatArray(s, m, 3, Idx(Nz, Nr)),
                         ![m].Jz = PatArray(s, m, 4, Idx(Nz, Nr))]
         /\ written' = written \cup {m}
         /\ last' = Op("deposit", "", "", FALSE, m, 0, dt, "")
    /\ calls' = <<>>
    /\ steps' = steps + 1
    /\ UNCHANGED <<pc, args, Nz, Nr, Nm, dt, use_cuda, pending, begun, seen, spect, psatd, trans>>

\* The curl in the (p, m, z) representation, as the push applies it
\* (lines 715 to 723): a field of this form has no divergence.
Curl(sg, Ap, Am, Az) ==
    [p |-> [q \in DOMAIN Ap |->
              (CNeg(i) \otimes Half \otimes sg.kr[q] \otimes Az[q]) \oplus (sg.kz[q] \otimes Ap[q])],
     m |-> [q \in DOMAIN Ap |->
              (CNeg(i) \otimes Half \otimes sg.kr[q] \otimes Az[q]) \ominus (sg.kz[q] \otimes Am[q])],
     z |-> [q \in DOMAIN Ap |->
              (i \otimes sg.kr[q] \otimes Ap[q]) \oplus (i \otimes sg.kr[q] \otimes Am[q])]]

\* A caller writes the spectral arrays of every mode: either any contents,
\* or (sol) E and B without divergence and the other arrays as well.
LoadedSpect(sg, s, sol) ==
    LET D == DOMAIN sg.Ep
        A(k) == PatArray(s, sg.m, k, D)
        E == IF sol THEN Curl(sg, A(1), A(2), A(3)) ELSE [p |-> A(1), m |-> A(2), z |-> A(3)]
        B == IF sol THEN Curl(sg, A(4), A(5), A(6)) ELSE [p |-> A(4), m |-> A(5), z |-> A(6)]
    IN  [sg EXCEPT !.Ep = E.p, !.Em = E.m, !.Ez = E.z,
                   !.Bp = B.p, !.Bm = B.m, !.Bz = B.z,
                   !.Jp = A(7), !.Jm = A(8), !.Jz = A(9),
                   !.rho_prev = A(10), !.rho_next = A(11)]

LoadSpect ==
    /\ pc = "ready"
    /\ steps = 0
    /\ last.op = "__init__"
    /\ \E s \in Seeds, sol \in BOOLEAN :
         /\ spect' = [m \in DOMAIN spect |-> LoadedSpect(spect[m], s, sol)]
         /\ last' = Op("load", IF sol THEN "solenoidal" ELSE "", "", FALSE, s, 0, dt, "")
    /\ written' = DOMAIN spect
    /\ calls' = <<>>
    /\ UNCHANGED <<pc, args, Nz, Nr, Nm, dt, use_cuda, pending, begun, seen, interp, psatd, trans, steps>>

\* A caller writes every array of the interpolation grid of every mode.
LoadedInterp(ig, s) ==
    [ig EXCEPT !.Er = PatArray(s, ig.m, 1, DOMAIN ig.Er),
               !.Et = PatArray(s, ig.m, 2, DOMAIN ig.Er),
               !.Ez = PatArray(s, ig.m, 3, DOMAIN ig.Er),
               !.Br = PatArray(s, ig.m, 4, DOMAIN ig.Er),
               !.Bt = PatArray(s, ig.m, 5, DOMAIN ig.Er),
               !.Bz = PatArray(s, ig.m, 6, DOMAIN ig.Er),
               !.Jr = PatArray(s, ig.m, 7, DOMAIN ig.Er),
               !.Jt = PatArray(s, ig.m, 8, DOMAIN ig.Er),
               !.Jz = PatArray(s, ig.m, 9, DOMAIN ig.Er),
               !.rho = PatArray(s, ig.m, 10, DOMAIN ig.Er)]

LoadInterp ==
    /\ pc = "ready"
    /\ last.op = "load"
    /\ \E s \in Seeds :
         /\ interp' = [m \in DOMAIN interp |-> LoadedInterp(interp[m], s)]
         /\ last' = Op("load_interp", "", "", FALSE, s, 0, dt, "")
    /\ calls' = <<>>
    /\ UNCHANGED <<pc, args, Nz, Nr, Nm, dt, use_cuda, pending, begun, seen, spect, psatd, trans, written, steps>>

----------------------------------------------------------------------------
(* The operations of Fields                                                *)

Push(bound) ==
    \E fb \in BOOLEAN : Do(bound, "push", "", "", fb, Fields_push(Self, fb))

CorrectCurrents(bound) ==
    Do(bound, "correct_currents", "", "", FALSE, Fields_correct_currents(Self))

Interp2Spect(bound, tags) ==
    \E t \in tags : Do(bound, "interp2spect", t, "", FALSE, Fields_interp2spect(Self, t))

Spect2Interp(bound, tags) ==
    \E t \in tags : Do(bound, "spect2interp", t, "", FALSE, Fields_spect2interp(Self, t))

Erase(bound, tags) ==
    \E t \in tags : Do(bound, "erase", t, "", FALSE, Fields_erase(Self, t))

FilterInterp(bound, tags) ==
    \E t \in tags, d \in {"r", "z"} :
        Do(bound, "filter_interp", t, d, FALSE, Fields_filter_interp(Self, t, d))

FilterSpect(bound, tags) ==
    \E t \in tags : Do(bound, "filter_spect", t, "", FALSE, Fields_filter_spect(Self, t))

DivideByVolume(bound, tags) ==
    \E t \in tags :
        Do(bound, "divide_by_volume", t, "", FALSE, Fields_divide_by_volume(Self, t))

----------------------------------------------------------------------------
(* The methods of one SpectralGrid, called directly                        *)

\* The number of direct calls on the spectral grids of one Fields object,
\* made after a caller has written the arrays.
MaxGridSteps == 2
\* The calls among them that can be push_eb_with, counted from 0: each push
\* multiplies the denominators of the field values, and those of two pushes
\* are what the integers of the model checker can hold.
PushSteps == {0, 1}

GridStep(op, kind, fb, m, ps, d, err) ==
    /\ last' = Op(op, kind, "", fb, m, ps, d, err)
    /\ calls' = <<>>
    /\ steps' = steps + 1
    /\ UNCHANGED <<pc, args, Nz, Nr, Nm, dt, use_cuda, pending, begun, seen, interp, trans, written>>

\* spect[m].push_eb_with( psatd[mp], fb, utr )
GridPushEb ==
    /\ pc = "ready"
    /\ last.op # "__init__"
    /\ steps < MaxGridSteps
    /\ steps \in PushSteps
    /\ \E m \in 0 .. Nm - 1, mp \in 0 .. Nm - 1, fb \in BOOLEAN :
         \E utr \in IF fb THEN BOOLEAN ELSE {FALSE} :
         \E r \in {SG_push_eb_with(spect[m], psatd[mp], fb, utr)} :
             /\ spect' = [spect EXCEPT ![m] = r.sg]
             /\ psatd' = [psatd EXCEPT ![mp] = r.ps]
             /\ GridStep("SpectralGrid.push_eb_with", IF utr THEN "use_true_rho" ELSE "",
                         fb, m, mp, dt, r.err)

\* spect[m].correct_currents( d )
GridCorrectCurrents ==
    /\ pc = "ready"
    /\ last.op # "__init__"
    /\ steps < MaxGridSteps
    /\ \E m \in 0 .. Nm - 1, d \in Dts :
         /\ spect' = [spect EXCEPT ![m] = SG_correct_currents(spect[m], d)]
         /\ GridStep("SpectralGrid.correct_currents", "", FALSE, m, m, d, "")
    /\ UNCHANGED psatd

\* spect[m].push_rho()
GridPushRho ==
    /\ pc = "ready"
    /\ last.op # "__init__"
    /\ steps < MaxGridSteps
    /\ \E m \in 0 .. Nm - 1 :
         /\ spect' = [spect EXCEPT ![m] = SG_push_rho(spect[m])]
         /\ GridStep("SpectralGrid.push_rho", "", FALSE, m, m, dt, "")
    /\ UNCHANGED psatd

----------------------------------------------------------------------------
(* The specifications                                                      *)

\* The timestep cycle: the callers deposit sources and call the transforms,
\* the current correction and the push, in any order.
CycleIn == {"E", "J", "rho_next", "rho_prev"}
CycleOut == {"E", "B", "J", "rho"}

Next ==
    \/ Construct
    \/ Deposit(MaxSteps)
    \/ Interp2Spect(MaxSteps, CycleIn)
    \/ CorrectCurrents(MaxSteps)
    \/ Push(MaxSteps)
    \/ Spect2Interp(MaxSteps, CycleOut)

Spec == Init /\ [][Next]_vars

\* The direct callers of the methods of the spectral grids.
NextGrid ==
    \/ Construct
    \/ LoadSpect
    \/ GridCorrectCurrents
    \/ GridPushEb
    \/ GridPushRho

SpecGrid == Init /\ [][NextGrid]_vars

\* The callers of the methods of Fields that take a fieldtype tag, with the
\* tags of both grids and a tag of neither.
MaxTagSteps == 2
Tags == InterpKinds \cup SpectKinds \cup {"X"}

NextTags ==
    \/ Construct
    \/ LoadSpect
    \/ LoadInterp
    \/ Erase(MaxTagSteps, Tags)
    \/ DivideByVolume(MaxTagSteps, Tags)
    \/ FilterInterp(MaxTagSteps, Tags)
    \/ FilterSpect(MaxTagSteps, Tags)
    \/ Interp2Spect(MaxTagSteps, Tags)
    \/ Spect2Interp(MaxTagSteps, Tags)

SpecTags == Init /\ [][NextTags]_vars

\* The timestep cycle in its order: the caller writes rho and J of every
\* mode on the interpolation grid, then calls interp2spect('rho_next'),
\* interp2spect('J'), correct_currents() and push().  MaxCycleSteps counts
\* these five steps: three timesteps up to the third correct_currents.
MaxCycleSteps == 14

CycleDeposit ==
    /\ pc = "ready"
    /\ steps < MaxCycleSteps
    /\ last.op \in {"__init__", "push"}
    /\ \E s \in Seeds :
         /\ interp' = [m \in DOMAIN interp |->
                         [interp[m] EXCEPT
                            !.rho = PatArray(s, m, 1, Idx(Nz, Nr)),
                            !.Jr = PatArray(s, m, 2, Idx(Nz, Nr)),
                            !.Jt = PatArray(s, m, 3, Idx(Nz, Nr)),
                            !.Jz = PatArray(s, m, 4, Idx(Nz, Nr))]]
         /\ last' = Op("deposit", "", "", FALSE, s, 0, dt, "")
    /\ written' = DOMAIN interp
    /\ calls' = <<>>
    /\ steps' = steps + 1
    /\ UNCHANGED <<pc, args, Nz, Nr, Nm, dt, use_cuda, pending, begun, seen, spect, psatd, trans>>

CycleRho ==
    /\ last.op = "deposit"
    /\ Do(MaxCycleSteps, "interp2spect", "rho_next", "", FALSE,
          Fields_interp2spect(Self, "rho_next"))

CycleJ ==
    /\ last.op = "interp2spect" /\ last.kind = "rho_next"
    /\ Do(MaxCycleSteps, "interp2spect", "J", "", FALSE, Fields_interp2spect(Self, "J"))

\* correct_currents(); seen records the rho_next every mode holds when it
\* runs.
CycleCorrect ==
    /\ last.op = "interp2spect" /\ last.kind = "J"
    /\ Did(MaxCycleSteps, "correct_currents", "", "", FALSE, Fields_correct_currents(Self))
    /\ seen' = [m \in DOMAIN spect |-> spect[m].rho_next]

CyclePush ==
    /\ last.op = "correct_currents"
    /\ \E fb \in BOOLEAN : Do(MaxCycleSteps, "push", "", "", fb, Fields_push(Self, fb))

NextCycle ==
    \/ Construct
    \/ CycleDeposit
    \/ CycleRho
    \/ CycleJ
    \/ CycleCorrect
    \/ CyclePush

SpecCycle == Init /\ [][NextCycle]_vars

\* The stages of the modes run concurrently: after the deposition in each
\* mode, every mode runs its statements in program order, and the
\* statements of different modes interleave in any order.
MaxConcSteps == 2

ConcDeposit ==
    /\ begun = <<>>
    /\ Deposit(MaxConcSteps)
    /\ last'.m = steps

Begin ==
    /\ pc = "ready"
    /\ begun = <<>>
    /\ steps = Nm
    /\ pending' = [m \in 0 .. Nm - 1 |-> StatementsOf(ModeCalls(m))]
    /\ begun' = Self
    /\ last' = Op("begin", "", "", TRUE, 0, 0, dt, "")
    /\ UNCHANGED <<pc, args, Nz, Nr, Nm, dt, use_cuda, seen, interp, spect, psatd, trans,
                   calls, written, steps>>

StepOfMode ==
    /\ pc = "ready"
    /\ begun # <<>>
    /\ \E m \in DOMAIN pending :
         /\ pending[m] # <<>>
         /\ \E fs \in {ApplyStatement(Self, Head(pending[m]))} :
                /\ interp' = fs.interp /\ spect' = fs.spect
                /\ psatd' = fs.psatd /\ trans' = fs.trans
         /\ pending' = [pending EXCEPT ![m] = Tail(@)]
         /\ last' = Op("step", Head(pending[m]).f, "", TRUE, m, m, dt, "")
    /\ UNCHANGED <<pc, args, Nz, Nr, Nm, dt, use_cuda, seen, begun, calls, written, steps>>

NextConc ==
    \/ Construct
    \/ LoadSpect
    \/ ConcDeposit
    \/ Begin
    \/ StepOfMode

SpecConc == Init /\ [][NextConc]_vars

\* The callers of all the operations of Fields, with recognized tags.
MaxOpSteps == 2
OpTags == {"E", "J", "rho", "rho_next"}

NextOps ==
    \/ Construct
    \/ LoadSpect
    \/ LoadInterp
    \/ Push(MaxOpSteps)
    \/ CorrectCurrents(MaxOpSteps)
    \/ Interp2Spect(MaxOpSteps, OpTags \ {"rho"})
    \/ Spect2Interp(MaxOpSteps, OpTags \ {"rho_next"})
    \/ Erase(MaxOpSteps, OpTags \ {"rho_next"})
    \/ FilterInterp(MaxOpSteps, OpTags \ {"rho_next"})
    \/ FilterSpect(MaxOpSteps, OpTags \ {"rho"})
    \/ DivideByVolume(MaxOpSteps, {"J", "rho"})

SpecOps == Init /\ [][NextOps]_vars

\* The callers of erase and divide_by_volume on Fields objects built for
\* either execution target.
MaxCudaSteps == 2

NextCuda ==
    \/ Construct
    \/ LoadSpect
    \/ LoadInterp
    \/ Erase(MaxCudaSteps, InterpKinds \cup {"X"})
    \/ DivideByVolume(MaxCudaSteps, InterpKinds \cup {"X"})

SpecCuda == InitCuda /\ [][NextCuda]_vars

----------------------------------------------------------------------------
(* Properties of the methods of SpectralGrid, under SpecGrid               *)

\* The spectral points with kz = 0 and kr = 0, and the others.
AtZero(sg) == {q \in DOMAIN sg.kz : sg.kz[q] = Zero /\ sg.kr[q] = Zero}
OffZero(sg) == DOMAIN sg.kz \ AtZero(sg)

\* The grid the last call was made on.
Grid == spect[last.m]

\* C1: after SpectralGrid.push_rho, rho_prev holds at every index the value
\* rho_next held immediately before the call, and rho_next is exactly zero
\* at every index.
C1_push_rho_rotation ==
    [][ last'.op = "SpectralGrid.push_rho" =>
          \A q \in DOMAIN spect[last'.m].rho_next :
              /\ spect'[last'.m].rho_prev[q] = spect[last'.m].rho_next[q]
              /\ spect'[last'.m].rho_next[q] = Zero ]_vars

\* push_rho has moved a charge density that is not zero.
C1_rotated ==
    /\ last.op = "SpectralGrid.push_rho"
    /\ \E q \in DOMAIN Grid.rho_prev : Grid.rho_prev[q] # Zero
    /\ \A q \in DOMAIN Grid.rho_next : Grid.rho_next[q] = Zero

\* The residual of the continuity equation at point q for the timestep d:
\* (rho_next - rho_prev)/d + i*kz*Jz + kr*(Jp - Jm).
Residual(sg, d, q) ==
    ((sg.rho_next[q] \ominus sg.rho_prev[q]) \otimes RInv(d))
      \oplus (i \otimes sg.kz[q] \otimes sg.Jz[q])
      \oplus (sg.kr[q] \otimes (sg.Jp[q] \ominus sg.Jm[q]))

\* C2: for every Jp, Jm, Jz, rho_prev, rho_next and every dt # 0, after
\* SpectralGrid.correct_currents(dt) the residual of the continuity equation
\* is zero at every spectral point with (kz, kr) # (0, 0).
C2_continuity_after_correction ==
    [][ last'.op = "SpectralGrid.correct_currents" =>
          \A q \in OffZero(spect'[last'.m]) :
              Residual(spect'[last'.m], last'.dt, q) = Zero ]_vars

\* correct_currents has changed a current whose residual was not zero.
C2_corrected ==
    /\ last.op = "SpectralGrid.correct_currents"
    /\ \E q \in OffZero(Grid) :
         /\ Grid.F[q] # Zero
         /\ Grid.Jp[q] # Zero
         /\ Grid.rho_next[q] # Grid.rho_prev[q]
         /\ Residual(Grid, last.dt, q) = Zero

\* C3: SpectralGrid.correct_currents leaves Jp, Jm and Jz unchanged at the
\* spectral point kz = 0, kr = 0, whatever the sources and dt, and inv_k2
\* and the correction F are 0 at that point.
C3_zero_mode_unchanged ==
    [][ last'.op = "SpectralGrid.correct_currents" =>
          \A q \in AtZero(spect[last'.m]) :
              /\ spect'[last'.m].Jp[q] = spect[last'.m].Jp[q]
              /\ spect'[last'.m].Jm[q] = spect[last'.m].Jm[q]
              /\ spect'[last'.m].Jz[q] = spect[last'.m].Jz[q]
              /\ spect'[last'.m].inv_k2[q] = Zero
              /\ spect'[last'.m].F[q] = Zero ]_vars

\* correct_currents has run on a grid that has the point kz = kr = 0, with
\* currents and a residual that are not zero there, and has changed the
\* currents elsewhere.
C3_zero_mode_present ==
    /\ last.op = "SpectralGrid.correct_currents"
    /\ \E q \in AtZero(Grid) :
         /\ Grid.Jp[q] # Zero /\ Grid.Jm[q] # Zero /\ Grid.Jz[q] # Zero
         /\ Residual(Grid, last.dt, q) # Zero
    /\ \E q \in OffZero(Grid) : Grid.F[q] # Zero

\* C5: SpectralGrid.push_eb_with called with a PsatdCoeffs of another mode
\* raises an assertion error, and the arrays of every grid and the scratch
\* arrays Ep, Em, Ez of every coefficients object are as before the call.
C5_mode_mismatch_asserts ==
    [][ (last'.op = "SpectralGrid.push_eb_with" /\ psatd[last'.ps].m # spect[last'.m].m) =>
          /\ last'.err = "AssertionError"
          /\ spect' = spect
          /\ psatd' = psatd ]_vars

\* push_eb_with has been refused for a grid whose E is not zero and a
\* coefficients object of another mode, whose scratch arrays differ from it.
C5_mismatch_refused ==
    /\ last.op = "SpectralGrid.push_eb_with"
    /\ last.m # last.ps
    /\ last.err = "AssertionError"
    /\ \E q \in DOMAIN Grid.Ep : Grid.Ep[q] # Zero /\ psatd[last.ps].Ep[q] # Grid.Ep[q]

\* The sum of f[q] over the points q of the sequence qs.
RECURSIVE SumOver(_, _)
SumOver(f, qs) == IF qs = <<>> THEN Zero ELSE f[Head(qs)] \oplus SumOver(f, Tail(qs))

\* The points of a grid in some order.
RECURSIVE Listed(_)
Listed(S) == IF S = {} THEN <<>>
             ELSE <<CHOOSE q \in S : TRUE>> \o Listed(S \ {CHOOSE q \in S : TRUE})

\* |Ep|^2 + |Em|^2 + |Ez|^2 + c^2 (|Bp|^2 + |Bm|^2 + |Bz|^2) at point q, with
\* the weight wt on the p and m components.
EnergyAt(sg, wt, q) ==
    (wt \otimes (Abs2(sg.Ep[q]) \oplus Abs2(sg.Em[q]))) \oplus Abs2(sg.Ez[q])
      \oplus (c \otimes c \otimes
               ((wt \otimes (Abs2(sg.Bp[q]) \oplus Abs2(sg.Bm[q]))) \oplus Abs2(sg.Bz[q])))

\* The same, summed over all (kz, kr).
Energy(sg, wt) ==
    SumOver([q \in DOMAIN sg.Ep |-> EnergyAt(sg, wt, q)], Listed(DOMAIN sg.Ep))

\* The divergence of a field with components Ap, Am, Az at point q:
\* kr*(Ap - Am) + i*kz*Az, as lines 707 to 709 compute it for E.
Div(sg, Ap, Am, Az, q) ==
    (sg.kr[q] \otimes (Ap[q] \ominus Am[q])) \oplus (i \otimes sg.kz[q] \otimes Az[q])

\* E and B of the grid have no divergence.
Solenoidal(sg) ==
    \A q \in DOMAIN sg.Ep :
        /\ Div(sg, sg.Ep, sg.Em, sg.Ez, q) = Zero
        /\ Div(sg, sg.Bp, sg.Bm, sg.Bz, q) = Zero

\* A call of push_eb_with without particle feedback that returned.
VacuumPush ==
    /\ last'.op = "SpectralGrid.push_eb_with"
    /\ ~last'.fb
    /\ last'.err = ""

\* C8, as stated: with ptcl_feedback = false, for every spectral E and B, a
\* call of push_eb_with leaves |Ep|^2 + |Em|^2 + |Ez|^2 + c^2 (|Bp|^2 +
\* |Bm|^2 + |Bz|^2), summed over all (kz, kr), unchanged.
C8_unweighted_energy_any_field ==
    [][ VacuumPush => Energy(spect'[last'.m], One) = Energy(spect[last'.m], One) ]_vars

\* C8, amended: with ptcl_feedback = false, for every spectral E and B
\* without divergence, a call of push_eb_with leaves E and B without
\* divergence and leaves 2|Ep|^2 + 2|Em|^2 + |Ez|^2 + c^2 (2|Bp|^2 + 2|Bm|^2
\* + |Bz|^2) unchanged at every (kz, kr), and so also summed over them.
C8_energy_of_solenoidal_field ==
    [][ (VacuumPush /\ Solenoidal(spect[last'.m])) =>
          /\ Solenoidal(spect'[last'.m])
          /\ \A q \in DOMAIN spect[last'.m].Ep :
                EnergyAt(spect'[last'.m], Z(2), q) = EnergyAt(spect[last'.m], Z(2), q) ]_vars

\* push_eb_with has advanced, without particle feedback, fields without
\* divergence that carry energy, and has changed them.
C8_vacuum_pushed ==
    /\ last.op = "SpectralGrid.push_eb_with"
    /\ ~last.fb
    /\ last.err = ""
    /\ Solenoidal(Grid)
    /\ \E q \in OffZero(Grid) :
         /\ EnergyAt(Grid, Z(2), q) # Zero
         /\ Grid.Ep[q] # psatd[last.ps].Ep[q]

\* The currents of a spectral grid.
JOf(sg) == << sg.Jp, sg.Jm, sg.Jz >>

\* This step is the second of two calls of correct_currents in a row on the
\* same grid with the same dt.
CorrectedTwice ==
    /\ last.op = "SpectralGrid.correct_currents"
    /\ last'.op = "SpectralGrid.correct_currents"
    /\ last'.m = last.m /\ last'.dt = last.dt

\* C22: correct_currents called twice in a row with the same dt # 0 leaves
\* Jp, Jm and Jz as the first call left them, and the second call computes
\* F = 0 at every spectral point.
C22_correct_currents_idempotent ==
    [][ CorrectedTwice =>
          /\ JOf(spect'[last'.m]) = JOf(spect[last'.m])
          /\ \A q \in DOMAIN spect'[last'.m].F : spect'[last'.m].F[q] = Zero ]_vars

\* The second of two calls in a row has found nothing to correct, on
\* currents that are not zero and charge densities that differ.
C22_corrected_twice ==
    /\ last.op = "SpectralGrid.correct_currents"
    /\ steps = MaxGridSteps
    /\ \A q \in DOMAIN Grid.F : Grid.F[q] = Zero
    /\ \E q \in OffZero(Grid) :
         /\ Grid.Jp[q] # Zero /\ Grid.Jz[q] # Zero
         /\ Grid.rho_next[q] # Grid.rho_prev[q]

\* The E and the B arrays of a spectral grid.
EOf(sg) == << sg.Ep, sg.Em, sg.Ez >>
BOf(sg) == << sg.Bp, sg.Bm, sg.Bz >>

\* A call of push_eb_with has returned.
PushedEb ==
    /\ last'.op = "SpectralGrid.push_eb_with"
    /\ last'.err = ""

\* The coefficients object holding a snapshot of the E of the grid sg.
Snapshot(sg, ps) == [ps EXCEPT !.Ep = sg.Ep, !.Em = sg.Em, !.Ez = sg.Ez]

\* C17: push_eb_with, with and without particle feedback, leaves the E
\* computed from the E, B and sources of before the call, and the B computed
\* from the B and sources of before the call and the E of before the call:
\* the update of both from the old state.
C17_simultaneous_update ==
    [][ PushedEb =>
          /\ EOf(spect'[last'.m])
               = EOf(SG_push_e(spect[last'.m], psatd[last'.ps], last'.fb,
                               last'.kind = "use_true_rho"))
          /\ BOf(spect'[last'.m])
               = BOf(SG_push_b(spect[last'.m], Snapshot(spect[last'.m], psatd[last'.ps]),
                               last'.fb)) ]_vars

\* push_eb_with has advanced, with particle feedback, a B whose values
\* differ according to whether the E of before or of after the call is
\* read: the scratch arrays hold the former.
C17_pushed_from_snapshot ==
    /\ last.op = "SpectralGrid.push_eb_with"
    /\ last.fb
    /\ last.err = ""
    /\ \E q \in DOMAIN Grid.Ep :
         /\ psatd[last.ps].Ep[q] # Grid.Ep[q]
         /\ Grid.kz[q] # Zero
         /\ Grid.Bp[q] # Zero
         /\ Grid.Jp[q] # Zero

\* The grid sg with other sources: the currents and the charge densities a
\* caller writes from the seed s.
OtherSources(sg, s) ==
    [sg EXCEPT !.Jp = PatArray(s, sg.m, 12, DOMAIN sg.Ep),
               !.Jm = PatArray(s, sg.m, 13, DOMAIN sg.Ep),
               !.Jz = PatArray(s, sg.m, 14, DOMAIN sg.Ep),
               !.rho_prev = PatArray(s, sg.m, 15, DOMAIN sg.Ep),
               !.rho_next = PatArray(s, sg.m, 16, DOMAIN sg.Ep)]

\* C18: with ptcl_feedback = false, the E and B that push_eb_with leaves
\* are those it leaves on a grid with the same E, B, kz, kr and
\* coefficients and any other Jp, Jm, Jz, rho_prev, rho_next.
C18_vacuum_push_ignores_sources ==
    [][ VacuumPush =>
          \A s \in Seeds :
             \E r \in {SG_push_eb_with(OtherSources(spect[last'.m], s), psatd[last'.ps],
                                       FALSE, FALSE)} :
                /\ r.err = ""
                /\ EOf(r.sg) = EOf(spect'[last'.m])
                /\ BOf(r.sg) = BOf(spect'[last'.m]) ]_vars

\* push_eb_with has advanced, without particle feedback, the fields of a
\* grid whose currents and charge densities are not zero and differ from
\* the other sources compared with.
C18_pushed_with_sources_present ==
    /\ last.op = "SpectralGrid.push_eb_with"
    /\ ~last.fb
    /\ last.err = ""
    /\ \A s \in Seeds : OtherSources(Grid, s).Jp # Grid.Jp
    /\ \E q \in OffZero(Grid) :
         /\ Grid.Jp[q] # Zero /\ Grid.Jz[q] # Zero
         /\ Grid.rho_next[q] # Grid.rho_prev[q]
         /\ Grid.Ep[q] # psatd[last.ps].Ep[q]

\* The record r with the fields named in names set aside.
Except(r, names) == [n \in DOMAIN r \ names |-> r[n]]

\* C25: push_eb_with, for every ptcl_feedback and use_true_rho, writes only
\* Ep, Em, Ez, Bp, Bm, Bz of its grid and the scratch Ep, Em, Ez of its
\* coefficients object: Jp, Jm, Jz, rho_prev, rho_next and everything else
\* are as before the call, so that push_rho on the grid it leaves copies
\* the rho_next of before the call.
C25_push_eb_frame ==
    [][ last'.op = "SpectralGrid.push_eb_with" =>
          /\ Except(spect'[last'.m], {"Ep", "Em", "Ez", "Bp", "Bm", "Bz"})
               = Except(spect[last'.m], {"Ep", "Em", "Ez", "Bp", "Bm", "Bz"})
          /\ Except(psatd'[last'.ps], {"Ep", "Em", "Ez"})
               = Except(psatd[last'.ps], {"Ep", "Em", "Ez"})
          /\ \A m \in DOMAIN spect \ {last'.m} : spect'[m] = spect[m]
          /\ \A m \in DOMAIN psatd \ {last'.ps} : psatd'[m] = psatd[m]
          /\ interp' = interp /\ trans' = trans
          /\ SG_push_rho(spect'[last'.m]).rho_prev = spect[last'.m].rho_next ]_vars

\* push_eb_with has advanced, with particle feedback and with the projected
\* charge densities, the fields of a grid whose currents and charge
\* densities are not zero.
C25_pushed_with_true_rho ==
    /\ last.op = "SpectralGrid.push_eb_with"
    /\ last.fb /\ last.kind = "use_true_rho" /\ last.err = ""
    /\ \E q \in OffZero(Grid) :
         /\ Grid.Jm[q] # Zero /\ Grid.rho_next[q] # Zero /\ Grid.rho_prev[q] # Zero
         /\ Grid.Ez[q] # psatd[last.ps].Ez[q]
         /\ Grid.Bz[q] # Zero

----------------------------------------------------------------------------
(* Properties of Fields, under Spec                                        *)

\* C9: for every integer Nz passed to the constructor, the Nz stored and
\* used for all grids is odd, equals the requested Nz when that is odd and
\* differs from it by exactly 1 when it is even.
C9_Nz_rounded_to_odd ==
    /\ pc # "new" => Nz % 2 = 1
    /\ last.op = "__init__" =>
         /\ last.m % 2 = 1 => Nz = last.m
         /\ last.m % 2 = 0 => Abs(Nz - last.m) = 1
    /\ pc = "ready" =>
         \A m \in 0 .. Nm - 1 :
             /\ interp[m].Nz = Nz /\ spect[m].Nz = Nz /\ trans[m].Nz = Nz
             /\ DOMAIN interp[m].Ez = Idx(Nz, Nr)
             /\ DOMAIN spect[m].Ez = Idx(Nz, Nr)
             /\ DOMAIN psatd[m].C = Idx(Nz, Nr)
             /\ DOMAIN trans[m].spect_buffer_r = Idx(Nz, Nr)

\* The constructor has built grids for an even Nz.
C9_even_request_built ==
    /\ last.op = "__init__" /\ last.m = 2
    /\ pc = "ready" /\ Nm = 2 /\ Nz = 3
    /\ DOMAIN spect[1].Ez = Idx(3, Nr)

\* The positions in the calls of the last operation where f is called for
\* mode m.
CallsOf(f, m) == {k \in DOMAIN calls : calls[k].f = f /\ calls[k].m = m}

\* C10: in Fields.push, for every mode m in 0 .. Nm-1, push_eb_with of mode
\* m is called exactly once, with psatd[m], and push_rho of mode m exactly
\* once and after push_eb_with of mode m has returned.
C10_push_order ==
    last.op = "push" =>
        /\ last.err = ""
        /\ \A m \in 0 .. Nm - 1 :
             /\ Cardinality(CallsOf("push_eb_with", m)) = 1
             /\ Cardinality(CallsOf("push_rho", m)) = 1
             /\ \A k \in CallsOf("push_eb_with", m) :
                  /\ calls[k].ps = m
                  /\ \A k2 \in CallsOf("push_rho", m) : k < k2

\* push has run on two modes.
C10_pushed_two_modes ==
    /\ last.op = "push" /\ Nm = 2
    /\ CallsOf("push_eb_with", 0) # {} /\ CallsOf("push_eb_with", 1) # {}
    /\ CallsOf("push_rho", 0) # {} /\ CallsOf("push_rho", 1) # {}

\* Every element of the arrays of r named in names is zero.
AllZero(r, names) == \A n \in names : \A q \in DOMAIN r[n] : r[n][q] = Zero

InterpFields == {"Er", "Et", "Ez", "Br", "Bt", "Bz", "Jr", "Jt", "Jz", "rho"}
SpectFields == {"Ep", "Em", "Ez", "Bp", "Bm", "Bz", "Jp", "Jm", "Jz",
                "rho_prev", "rho_next", "F"}

\* Every field array of mode m, real-space and spectral, is zero.
ModeIsZero(m) ==
    /\ AllZero(interp[m], InterpFields)
    /\ AllZero(spect[m], SpectFields)
    /\ AllZero(psatd[m], {"Ep", "Em", "Ez"})

\* C6: no cross-mode leakage.  When sources are written only to some modes,
\* after any sequence of interp2spect, correct_currents, push and
\* spect2interp every field array of every other mode is still exactly zero.
C6_no_cross_mode_leakage ==
    pc = "ready" => \A m \in (0 .. Nm - 1) \ written : ModeIsZero(m)

\* The sources written to mode 1 alone have produced fields in mode 1, and
\* mode 0 is zero.
C6_one_mode_driven ==
    /\ pc = "ready" /\ Nm = 2 /\ written = {1}
    /\ last.op = "push" /\ last.fb
    /\ \E q \in DOMAIN spect[1].Ep : spect[1].Ep[q] # Zero /\ spect[1].Bz[q] # Zero
    /\ ModeIsZero(0)

\* spect2interp_vect applied to what interp2spect_vect left: the transformer
\* and the spectral arrays p and m.
BackFrom(f) == ST_spect2interp_vect(f.tr, f.spect_array_p, f.spect_array_m)

\* b, returned by spect2interp_vect, is (Fr, Ft).
Returns(b, Fr, Ft) == b.interp_array_r = Fr /\ b.interp_array_t = Ft

RoundTrip(tr, Fr, Ft) == Returns(BackFrom(ST_interp2spect_vect(tr, Fr, Ft)), Fr, Ft)

\* C7: vector round trip.  With the injected transforms inverse to each
\* other, spect2interp_vect(interp2spect_vect(Fr, Ft)) returns (Fr, Ft) for
\* every pair of arrays, whatever the buffers of the transformer hold.
C7_vector_round_trip ==
    pc = "ready" =>
        \A m \in 0 .. Nm - 1 :
            /\ RoundTrip(trans[m], interp[m].Jr, interp[m].Jt)
            /\ RoundTrip(trans[m], interp[m].Er, interp[m].Et)
            /\ RoundTrip(trans[m], interp[m].Br, interp[m].Bt)

\* The transforms of Fields have taken a pair (Jr, Jt) that is not zero to
\* the spectral grid and back.
C7_went_round ==
    /\ last.op = "spect2interp" /\ last.kind = "J" /\ last.err = ""
    /\ \E m \in 0 .. Nm - 1 :
         /\ \E q \in DOMAIN interp[m].Jr :
              /\ interp[m].Jr[q] # Zero
              /\ interp[m].Jt[q] # Zero
              /\ interp[m].Jr[q] # interp[m].Jt[q]
         /\ \E q \in DOMAIN spect[m].Jp : spect[m].Jp[q] # spect[m].Jm[q]
         /\ trans[m].interp_buffer_r = interp[m].Jr

\* The number x is finite: neither Inf nor NaN (a zero denominator).
Finite(x) == x[3] > 0

\* The spectral points of mode m where omega = c*sqrt(kz^2 + kr^2) is 0.
OmegaZero(m) ==
    {q \in Idx(Nz, Nr) : PS_w2(spect[m].kz[q], spect[m].kr[q]) = Zero}

\* C14: at every spectral point where omega is 0 the PSATD coefficients are
\* the closed-form limits S_w = dt, j_coef = mu0 c^2 dt^2/2, rho_prev_coef =
\* -(c^2/eps0) dt^2/3, rho_next_coef = (c^2/eps0) dt^2/6; no divisor of the
\* construction is zero at any point and every stored coefficient is finite.
C14_closed_form_limits ==
    pc = "ready" =>
      \A m \in 0 .. Nm - 1 :
        /\ \A q \in OmegaZero(m) :
             /\ psatd[m].S_w[q] = dt
             /\ psatd[m].j_coef[q] = mu_0 \otimes c \otimes c \otimes dt \otimes dt \otimes Q(1, 2)
             /\ psatd[m].rho_prev_coef[q] =
                  c \otimes c \otimes RInv(epsilon_0) \otimes dt \otimes dt \otimes Q(-1, 3)
             /\ psatd[m].rho_next_coef[q] =
                  c \otimes c \otimes RInv(epsilon_0) \otimes dt \otimes dt \otimes Q(1, 6)
        /\ dt # Zero /\ epsilon_0 # Zero
        /\ \A q \in Idx(Nz, Nr) :
             /\ PS_divisor(PS_w2(spect[m].kz[q], spect[m].kr[q])) # Zero
             /\ Finite(RInv(PS_divisor(PS_w2(spect[m].kz[q], spect[m].kr[q]))))
             /\ Finite(psatd[m].C[q]) /\ Finite(psatd[m].S_w[q])
             /\ Finite(psatd[m].j_coef[q])
             /\ Finite(psatd[m].rho_prev_coef[q])
             /\ Finite(psatd[m].rho_next_coef[q])

\* Coefficients have been constructed on a grid that has a point with
\* omega = 0 and points with omega # 0.
C14_coefficients_at_omega_zero ==
    /\ pc = "ready" /\ Nm = 2
    /\ OmegaZero(0) # {} /\ OmegaZero(0) # Idx(Nz, Nr)
    /\ \E q \in Idx(Nz, Nr) \ OmegaZero(0) : psatd[0].S_w[q] # dt

----------------------------------------------------------------------------
(* Properties of the operations that take a fieldtype tag, under SpecTags  *)

\* The tags each operation documents (its docstring and its branches).
Recognized(op) ==
    CASE op = "erase" -> {"E", "B", "J", "rho"}
      [] op = "divide_by_volume" -> {"rho", "J"}
      [] op = "filter_interp" -> {"E", "B", "J", "rho"}
      [] op = "filter_spect" -> {"E", "B", "J", "rho_next", "rho_prev"}
      [] op = "interp2spect" -> {"E", "B", "J", "rho_next", "rho_prev"}
      [] op = "spect2interp" -> {"E", "B", "J", "rho"}

TagOps == {"erase", "divide_by_volume", "filter_interp", "filter_spect",
           "interp2spect", "spect2interp"}

\* This step is a call of one of them with a tag outside its recognized set.
InvalidTagCall == last'.op \in TagOps /\ last'.kind \notin Recognized(last'.op)

\* C4, as stated: on any Fields object, erase, divide_by_volume,
\* filter_interp, filter_spect, interp2spect and spect2interp, called with a
\* tag outside the recognized set, raise ValueError and leave every field
\* array of every mode unchanged.
C4_invalid_tag_raises ==
    [][ InvalidTagCall =>
          /\ last'.err = "ValueError"
          /\ interp' = interp /\ spect' = spect ]_vars

\* C4 on the Fields objects that have at least one mode: there the invalid
\* tag raises before any array is written.
C4_invalid_tag_raises_with_modes ==
    [][ (InvalidTagCall /\ Nm >= 1) =>
          /\ last'.err = "ValueError"
          /\ interp' = interp /\ spect' = spect ]_vars

\* An operation was called with an invalid tag on loaded arrays of two modes
\* and raised.
C4_invalid_tag_refused ==
    /\ last.op \in TagOps
    /\ last.kind \notin Recognized(last.op)
    /\ last.err = "ValueError"
    /\ Nm = 2
    /\ \E q \in DOMAIN interp[1].rho : interp[1].rho[q] # Zero

\* The names of the real-space arrays of the group kind.
GroupOf(kind) == {InterpArrays(kind)[k] : k \in DOMAIN InterpArrays(kind)}

\* C12: Fields.erase(kind) with kind in {E, B, J, rho}, on the CPU, sets
\* every element of every real-space array of that group to zero in every
\* mode, and leaves the real-space arrays of the other groups and every
\* spectral array unchanged.
C12_erase_zeroes_its_group ==
    [][ (last'.op = "erase" /\ last'.kind \in {"E", "B", "J", "rho"}) =>
          /\ last'.err = ""
          /\ \A m \in 0 .. Nm - 1 :
               /\ \A n \in GroupOf(last'.kind) :
                    \A q \in Idx(Nz, Nr) : interp'[m][n][q] = Zero
               /\ \A k \in {"E", "B", "J", "rho"} \ {last'.kind} :
                    \A n \in GroupOf(k) : interp'[m][n] = interp[m][n]
          /\ spect' = spect ]_vars

\* erase('J') has zeroed the loaded currents of two modes and kept the
\* loaded fields and charge density.
C12_erased_currents ==
    /\ last.op = "erase" /\ last.kind = "J" /\ last.err = ""
    /\ Nm = 2
    /\ \A m \in {0, 1} : \A q \in Idx(Nz, Nr) :
         interp[m].Jr[q] = Zero /\ interp[m].Jt[q] = Zero /\ interp[m].Jz[q] = Zero
    /\ \A m \in {0, 1} :
         /\ \E q \in Idx(Nz, Nr) : interp[m].Ez[q] # Zero
         /\ \E q \in Idx(Nz, Nr) : interp[m].rho[q] # Zero
         /\ \E q \in Idx(Nz, Nr) : spect[m].Jz[q] # Zero

\* The sign s of the guard cell below the axis: (-1)^m for rho and the z
\* components, -(-1)^m for the r and t components of mode m.
AxisSign(n, m) ==
    IF n \in {"rho", "Ez", "Bz", "Jz"} THEN Z(MinusOnePow(m)) ELSE Z(0 - MinusOnePow(m))

\* This step is filter_interp along the direction d of a recognized group.
FilterCall(d) ==
    /\ last'.op = "filter_interp" /\ last'.dir = d /\ last'.err = ""
    /\ last'.kind \in {"E", "B", "J", "rho"}

\* After this step the axis cell of every filtered array holds
\* 0.25*s*F[:,0] + 0.5*F[:,0] + w*F[:,1] of the unfiltered values.
AxisStencil(w) ==
    \A m \in 0 .. Nm - 1 : \A n \in GroupOf(last'.kind) : \A iz \in 0 .. Nz - 1 :
        interp'[m][n][<<iz, 0>>] =
            (Quarter \otimes AxisSign(n, m) \otimes interp[m][n][<<iz, 0>>])
              \oplus (Half \otimes interp[m][n][<<iz, 0>>])
              \oplus (w \otimes interp[m][n][<<iz, 1>>])

\* C13, as stated: filtering along r leaves in the axis cell F[:,0] the
\* value 0.25*s*F[:,0] + 0.5*F[:,0] + 0.25*F[:,1] of the unfiltered values,
\* with s = (-1)^m for rho and the z components and s = -(-1)^m for the r
\* and t components of mode m.
C13_axis_cell_binomial ==
    [][ FilterCall("r") => AxisStencil(Quarter) ]_vars

\* C13 with the weight the program gives the second cell: the axis cell
\* receives 0.25*s*F[:,0] + 0.5*F[:,0] + 0.5*F[:,1], with the signs s of
\* the claim.
C13_axis_cell_as_coded ==
    [][ FilterCall("r") => AxisStencil(Half) ]_vars

\* filter_interp along r has filtered loaded fields of an odd mode.
C13_filtered_along_r ==
    /\ last.op = "filter_interp" /\ last.dir = "r" /\ last.kind = "E" /\ last.err = ""
    /\ Nm = 2
    /\ \E q \in Idx(Nz, Nr) : interp[1].Er[q] # Zero /\ interp[1].Ez[q] # Zero

\* The sum over z of the column ir of the array F, up to the row n.
RECURSIVE ColumnSum(_, _, _)
ColumnSum(F, ir, n) ==
    IF n = 0 THEN Zero ELSE ColumnSum(F, ir, n - 1) \oplus F[<<n - 1, ir>>]

\* C20: filtering along z is periodic: every cell of every filtered array
\* receives 0.25*F[(j-1) mod Nz] + 0.5*F[j] + 0.25*F[(j+1) mod Nz] of the
\* unfiltered values of its column, and the sum of each column over z is
\* as it was.
C20_z_filter_periodic ==
    [][ FilterCall("z") =>
          \A m \in 0 .. Nm - 1 : \A n \in GroupOf(last'.kind) : \A ir \in 0 .. Nr - 1 :
             /\ \A j \in 0 .. Nz - 1 :
                   interp'[m][n][<<j, ir>>] =
                      (Quarter \otimes interp[m][n][<<(j - 1) % Nz, ir>>])
                        \oplus (Half \otimes interp[m][n][<<j, ir>>])
                        \oplus (Quarter \otimes interp[m][n][<<(j + 1) % Nz, ir>>])
             /\ ColumnSum(interp'[m][n], ir, Nz) = ColumnSum(interp[m][n], ir, Nz) ]_vars

\* filter_interp along z has filtered loaded currents whose columns are not
\* uniform in z and do not sum to zero.
C20_filtered_along_z ==
    /\ last.op = "filter_interp" /\ last.dir = "z" /\ last.kind = "J" /\ last.err = ""
    /\ Nm = 2
    /\ \E ir \in 0 .. Nr - 1 :
         /\ interp[1].Jz[<<0, ir>>] # interp[1].Jz[<<Nz - 1, ir>>]
         /\ interp[1].Jz[<<0, ir>>] # interp[1].Jz[<<1, ir>>]
         /\ ColumnSum(interp[1].Jz, ir, Nz) # Zero

----------------------------------------------------------------------------
(* Properties of the execution target, under SpecCuda                      *)

\* The Fields object with the CPU path selected, and what the operation op
\* with the tag kind leaves of it.
CpuSelf == [Self EXCEPT !.use_cuda = FALSE]
OnCpu(op, kind) ==
    Run(CpuSelf, IF op = "erase" THEN Fields_erase(CpuSelf, kind)
                 ELSE Fields_divide_by_volume(CpuSelf, kind), <<>>)

\* This step is erase or divide_by_volume with the accelerator path selected.
CudaCall == last'.op \in {"erase", "divide_by_volume"} /\ use_cuda

SameAsCpu(r) == interp' = r.fs.interp /\ spect' = r.fs.spect /\ last'.err = r.err

\* C11, as stated: for every number of modes Nm, erase(kind) and
\* divide_by_volume(kind) with the accelerator path selected leave the same
\* arrays, with the same values, and the same outcome as with the CPU path
\* selected.
C11_accelerator_path_as_cpu_path ==
    [][ CudaCall => SameAsCpu(OnCpu(last'.op, last'.kind)) ]_vars

\* C11 on the Fields objects of exactly two modes, where the two paths agree.
C11_accelerator_path_two_modes ==
    [][ (CudaCall /\ Nm = CudaModes) => SameAsCpu(OnCpu(last'.op, last'.kind)) ]_vars

\* The accelerator path has erased loaded arrays of two modes.
C11_erased_on_accelerator ==
    /\ last.op = "erase" /\ last.kind = "E" /\ last.err = "" /\ use_cuda
    /\ Nm = 2
    /\ \A q \in DOMAIN interp[1].Er : interp[1].Er[q] = Zero
    /\ \E q \in DOMAIN interp[1].Br : interp[1].Br[q] # Zero

----------------------------------------------------------------------------
(* Properties of all the operations of Fields, under SpecOps               *)

\* What is computed at construction: the PSATD coefficients, the spectral
\* meshes with inv_k2 and filter_array, and invvol.
Constructed(ps, sg, ig) ==
    << ps.C, ps.S_w, ps.j_coef, ps.rho_prev_coef, ps.rho_next_coef,
       sg.kz, sg.kr, sg.inv_k2, sg.filter_array, ig.invvol >>

\* C15: after construction, no operation of Fields changes the PSATD
\* coefficients, the spectral meshes kz, kr, inv_k2, filter_array or invvol
\* of any mode, and inv_k2 at kz = 0, kr = 0 is 0 in every state.
C15_constructed_data_fixed ==
    [][ /\ pc' = "ready" =>
             \A m \in 0 .. Nm' - 1 : \A q \in AtZero(spect'[m]) :
                 spect'[m].inv_k2[q] = Zero
        /\ pc = "ready" =>
             \A m \in 0 .. Nm - 1 :
                 Constructed(psatd'[m], spect'[m], interp'[m]) =
                   Constructed(psatd[m], spect[m], interp[m]) ]_vars

\* Two operations have run on loaded arrays of two modes, the second a
\* filter of the spectral grid that changed an array, on a grid that has
\* the point kz = kr = 0.
C15_operations_ran ==
    /\ pc = "ready" /\ Nm = 2 /\ steps = 2
    /\ last.op = "filter_spect" /\ last.kind = "J" /\ last.err = ""
    /\ AtZero(spect[1]) # {}
    /\ \E q \in Idx(Nz, Nr) : spect[1].Jz[q] # Zero
    /\ \E q \in Idx(Nz, Nr) : spect[1].Jz[q] = Zero /\ spect[1].Jp[q] = Zero

\* The Fields object fs with other spectral charge densities in every mode:
\* those a caller writes from the seed s.
OtherRho(fs, s) ==
    [fs EXCEPT !.spect = [m \in DOMAIN fs.spect |->
        [fs.spect[m] EXCEPT !.rho_prev = PatArray(s, m, 15, DOMAIN fs.spect[m].Ep),
                            !.rho_next = PatArray(s, m, 16, DOMAIN fs.spect[m].Ep)]]]

\* The E and B of every mode of the Fields object fs.
FieldsOf(fs) == [m \in DOMAIN fs.spect |-> << EOf(fs.spect[m]), BOf(fs.spect[m]) >>]

\* C21: the E and B that Fields.push leaves, for either value of
\* ptcl_feedback, are those it leaves from a state that differs in the
\* spectral rho_prev and rho_next only.
C21_push_ignores_rho ==
    [][ (last'.op = "push" /\ last'.err = "") =>
          \A s \in Seeds :
             \E r \in {Run(OtherRho(Self, s), Fields_push(Self, last'.fb), <<>>)} :
                /\ r.err = ""
                /\ FieldsOf(r.fs) = [m \in DOMAIN spect' |->
                                       << EOf(spect'[m]), BOf(spect'[m]) >>] ]_vars

\* push has advanced, with particle feedback, the fields of two modes whose
\* charge densities were not zero and not those compared with.
C21_pushed_with_rho_present ==
    /\ last.op = "push" /\ last.fb /\ last.err = ""
    /\ Nm = 2
    /\ \A m \in {0, 1} :
         /\ \A s \in Seeds : spect[m].rho_prev # PatArray(s, m, 16, DOMAIN spect[m].Ep)
         /\ \E q \in OffZero(spect[m]) :
               /\ spect[m].rho_prev[q] # Zero
               /\ spect[m].Ep[q] # psatd[m].Ep[q]

\* C23: after construction and after any sequence of operations of Fields,
\* trans, interp, spect and psatd each hold exactly Nm entries, the objects
\* interp[m], spect[m] and psatd[m] carry the mode index m, psatd[m].dt is
\* the dt of Fields, and push has not failed the assertion of push_eb_with.
C23_one_object_per_mode ==
    pc = "ready" =>
       /\ DOMAIN trans = 0 .. Nm - 1 /\ DOMAIN interp = 0 .. Nm - 1
       /\ DOMAIN spect = 0 .. Nm - 1 /\ DOMAIN psatd = 0 .. Nm - 1
       /\ \A m \in 0 .. Nm - 1 :
             /\ interp[m].m = m /\ spect[m].m = m /\ psatd[m].m = m
             /\ psatd[m].dt = dt
       /\ last.op = "push" => last.err = ""

\* push has returned on two modes, after another operation, and has
\* advanced the fields of the second mode.
C23_push_returned ==
    /\ pc = "ready" /\ Nm = 2 /\ steps = MaxOpSteps
    /\ last.op = "push" /\ last.err = ""
    /\ Len(calls) = 2 * Nm
    /\ \E q \in Idx(Nz, Nr) : spect[1].Ep[q] # Zero /\ spect[1].Ep[q] # psatd[1].Ep[q]

\* rho_next is zero in every mode of the spectral grids sp.
NoRhoNext(sp) == \A m \in DOMAIN sp : sp[m].rho_next = zeros(Nz, Nr)

\* This step writes rho_next from outside the push: interp2spect('rho_next'),
\* or a caller loading the spectral arrays.
WritesRhoNext ==
    \/ last'.op = "load"
    \/ last'.op = "interp2spect" /\ last'.kind = "rho_next"

\* C24: after Fields.push returns, rho_next is zero in every mode; it stays
\* zero until the next interp2spect('rho_next'); and a spect2interp('rho')
\* issued meanwhile overwrites the real-space rho of every mode with the
\* transform of the zero array, which is zero.
C24_rho_lost_after_push ==
    [][ (pc = "ready" /\ pc' = "ready") =>
          /\ (last'.op = "push" /\ last'.err = "") => NoRhoNext(spect')
          /\ (NoRhoNext(spect) /\ ~WritesRhoNext) => NoRhoNext(spect')
          /\ (NoRhoNext(spect) /\ last'.op = "spect2interp" /\ last'.kind = "rho") =>
                \A m \in 0 .. Nm - 1 :
                   /\ interp'[m].rho
                        = ST_spect2interp_scal(trans[m], zeros(Nz, Nr)).interp_array
                   /\ interp'[m].rho = zeros(Nz, Nr) ]_vars

\* spect2interp('rho') has run right after push on two modes with loaded
\* arrays: push has moved the charge density to rho_prev, and the loaded
\* real-space rho is now zero while the other loaded arrays are not.
C24_rho_overwritten_with_zero ==
    /\ pc = "ready" /\ Nm = 2 /\ steps = MaxOpSteps
    /\ last.op = "spect2interp" /\ last.kind = "rho" /\ last.err = ""
    /\ NoRhoNext(spect)
    /\ \A m \in {0, 1} :
         /\ interp[m].rho = zeros(Nz, Nr)
         /\ \E q \in Idx(Nz, Nr) : spect[m].rho_prev[q] # Zero /\ interp[m].Jz[q] # Zero

----------------------------------------------------------------------------
(* Properties of the concurrent run of the modes, under SpecConc           *)

\* Every array of the Fields object fs.
Arrays(fs) == << fs.interp, fs.spect, fs.psatd, fs.trans >>

\* The concurrent run has ended: no mode has a statement left.
Ended == begun # <<>> /\ \A m \in DOMAIN pending : pending[m] = <<>>

\* The stages run one mode after the other, from the state in which the
\* concurrent run began.
OneAfterTheOther ==
    Run(begun, ForRange(begun.Nm, [m \in 0 .. begun.Nm - 1 |-> ModeCalls(m)]), <<>>).fs

\* A step of one mode leaves the scratch buffers, the coefficients and the
\* field arrays of every other mode as they were.
OwnedPerMode ==
    last'.op = "step" =>
       \A n \in DOMAIN pending \ {last'.m} :
          /\ trans'[n] = trans[n] /\ psatd'[n] = psatd[n]
          /\ spect'[n] = spect[n] /\ interp'[n] = interp[n]

\* C16: the stages of the modes run concurrently, in any interleaving of
\* their steps, leave the same arrays as the stages run one mode after the
\* other, every step working on the arrays of its own mode only.
C16_interleaving_as_sequential ==
    /\ [](Ended => Arrays(Self) = Arrays(OneAfterTheOther))
    /\ [][OwnedPerMode]_vars

\* Two modes with different deposited sources have run concurrently to the
\* end, and the push has advanced the fields of both.
C16_two_modes_ended ==
    /\ Ended /\ Nm = 2
    /\ last.op = "step" /\ last.m = 0
    /\ begun.interp[0].Jr # begun.interp[1].Jr
    /\ \A m \in {0, 1} : \E q \in Idx(Nz, Nr) :
         spect[m].Ez[q] # Zero /\ spect[m].rho_prev[q] # Zero

----------------------------------------------------------------------------
(* Properties of the timestep cycle, under SpecCycle                       *)

\* correct_currents runs in a timestep after the first one.
CorrectsAgain == last'.op = "correct_currents" /\ seen # <<>>

\* C19: over the timesteps of the cycle, when correct_currents runs in a
\* timestep after the first, the rho_prev of every mode is the rho_next that
\* mode held when correct_currents ran in the timestep before.
C19_rho_prev_is_last_rho_next ==
    [][ CorrectsAgain =>
          \A m \in DOMAIN spect :
             spect[m].rho_prev = seen[m] /\ spect'[m].rho_prev = seen[m] ]_vars

\* correct_currents has run in the second timestep on two modes, whose
\* charge density differs between the two timesteps.
C19_second_timestep_corrected ==
    /\ last.op = "correct_currents"
    /\ steps > 5
    /\ Nm = 2
    /\ \A m \in DOMAIN spect :
         /\ spect[m].rho_prev # spect[m].rho_next
         /\ \E q \in Idx(Nz, Nr) : spect[m].rho_prev[q] # Zero

====
